---- MODULE Spec2Model ----
(***************************************************************************)
(* Model of the kidChef recipe-extraction pipeline:                        *)
(*   - the cloud function scrapeRecipeV2 and its orchestrator              *)
(*     extractRecipeFromUrl with the three extractors                      *)
(*     (functions/src/index.ts);                                           *)
(*   - the client retry wrapper importFromUrl                              *)
(*     (src/services/recipeImport.ts).                                     *)
(*                                                                         *)
(* JavaScript values are tagged records [k |-> tag, v |-> payload]:        *)
(*   "undef", "null", "str" (v: sequence of one-character strings),        *)
(*   "num" (v: integer), "arr" (v: sequence of values),                    *)
(*   "obj" (v: function from property names to values).                    *)
(* An outcome of a call that may throw is a value or [k |-> "throw"].      *)
(***************************************************************************)
EXTENDS Integers, Sequences, FiniteSets, TLC

VARIABLES
    url,             \* scrapeRecipeV2: data.url of the request being served
    pc,              \* position of the request inside scrapeRecipeV2
    fetchCalls,      \* number of axios.get calls made for this request
    fetchError,      \* the error axios.get rejected with (NoError if none)
    doc,             \* the document cheerio.load produced (NoDoc before)
    tried,           \* extractors invoked so far, in invocation order
    jsonLdRecipe,    \* local of extractRecipeFromUrl
    microdataRecipe, \* local of extractRecipeFromUrl
    cssRecipe,       \* local of extractRecipeFromUrl
    scriptIdx,       \* loop index i of extractFromJsonLd
    examined,        \* indices of the script blocks the loop body has read
    thrown,          \* the error leaving extractRecipeFromUrl (NoError if none)
    response,        \* what scrapeRecipeV2 delivers to its caller
    lastFailure,     \* kind and code of the previous failed request
    fnIn,            \* argument of the helper function under test
    fnOut,           \* its outcome (Pending before the call)
    iurl,            \* importFromUrl: the url argument
    maxRetries,      \* importFromUrl: options.maxRetries
    ipc,             \* position inside importFromUrl
    attempt,         \* loop variable of the retry loop
    progress,        \* statuses passed to onProgress, in order
    fetchAttempts,   \* number of fetch() calls to the import endpoint
    retries,         \* attempt numbers passed to onRetry, in order
    delays,          \* milliseconds passed to this.delay, in order
    iresult,         \* the ImportResult returned (NoResult before)
    currentUser,     \* auth.currentUser is set: a user is signed in
    lastThrown,      \* what the latest attempt threw (NoThrown before)
    calls,           \* concurrent extractRecipeFromUrl calls: each call's locals
    user,            \* ImportProvider: useAuth() gives a user with a uid
    activeImports,   \* ImportProvider: the activeImports state, a list of jobs
    jobIdCounter,    \* ImportProvider: jobIdCounter.current
    imports,         \* ImportProvider: the importRecipe calls, each call's locals
    kidRecipes,      \* the kidRecipes collection: document i is kidRecipes[i]
    ops,             \* kidRecipeManagerService calls, each call's locals
    arrays,          \* ErrorReportingService: the array objects made so far
    pendingReports,  \* ErrorReportingService: which array this.pendingReports is
    isOnline,        \* ErrorReportingService: this.isOnline
    senders,         \* the sendPendingReports calls, each call's loop position
    reported,        \* reports made by reportError so far; report i has id i
    delivered        \* per report: how often the backend call resolved

serverVars == <<url, pc, fetchCalls, fetchError, doc, tried, jsonLdRecipe,
                microdataRecipe, cssRecipe, scriptIdx, examined, thrown,
                response, lastFailure>>
fnVars == <<fnIn, fnOut>>
clientVars == <<iurl, maxRetries, ipc, attempt, progress, fetchAttempts,
                retries, delays, iresult,
      currentUser, lastThrown>>
baseVars == <<serverVars, fnVars, clientVars>>
providerVars == <<user, activeImports, jobIdCounter, imports>>
storeVars == <<kidRecipes, ops>>
reportVars == <<arrays, pendingReports, isOnline, senders, reported, delivered>>
appVars == <<calls, providerVars, storeVars, reportVars>>
nonCallVars == <<providerVars, storeVars, reportVars>>
nonProviderVars == <<calls, storeVars, reportVars>>
nonStoreVars == <<calls, providerVars, reportVars>>
nonReportVars == <<calls, providerVars, storeVars>>
vars == <<serverVars, fnVars, clientVars, appVars>>

(***************************************************************************)
(* JavaScript values                                                       *)
(***************************************************************************)
Undef == [k |-> "undef"]
Null == [k |-> "null"]
Str(s) == [k |-> "str", v |-> s]
Num(n) == [k |-> "num", v |-> n]
Arr(a) == [k |-> "arr", v |-> a]
Obj(f) == [k |-> "obj", v |-> f]
NaN == [k |-> "nan"]
Throw(name) == [k |-> "throw", v |-> name]

IsThrow(x) == x.k = "throw"
IsString(x) == x.k = "str"
IsArray(x) == x.k = "arr"

\* ToBoolean: undefined, null, "" and 0 are falsy; arrays and objects truthy.
Truthy(x) ==
    CASE x.k = "undef" -> FALSE
      [] x.k = "null" -> FALSE
      [] x.k = "str" -> x.v # <<>>
      [] x.k = "num" -> x.v # 0
      [] x.k = "nan" -> FALSE
      [] OTHER -> TRUE

\* x[key] for a value that is neither null nor undefined.
Get(x, key) ==
    IF x.k = "obj" /\ key \in DOMAIN x.v THEN x.v[key] ELSE Undef

\* Reading a property of null or undefined raises a TypeError.
CanRead(x) == x.k \notin {"undef", "null"}

\* a === b on the values modelled (objects are never compared)
StrictEq(a, b) == a.k = b.k /\ a = b

\* a || b
OrElse(a, b) == IF Truthy(a) THEN a ELSE b

Whitespace == {" ", "\n"}
Digits == {"0", "1", "2", "3", "4", "5", "6", "7", "8", "9"}

\* String.prototype.trim
LeadingWs(s) ==
    CHOOSE i \in 0..Len(s) :
        /\ \A j \in 1..i : s[j] \in Whitespace
        /\ (i < Len(s) => s[i + 1] \notin Whitespace)
TrailingWs(s) ==
    CHOOSE i \in 0..Len(s) :
        /\ \A j \in (Len(s) - i + 1)..Len(s) : s[j] \in Whitespace
        /\ (i < Len(s) => s[Len(s) - i] \notin Whitespace)
trim(s) ==
    IF LeadingWs(s) = Len(s) THEN <<>>
    ELSE SubSeq(s, LeadingWs(s) + 1, Len(s) - TrailingWs(s))

\* Array.prototype.filter(Boolean) on a sequence of values
RECURSIVE FilterTruthy(_)
FilterTruthy(a) ==
    IF a = <<>> THEN <<>>
    ELSE IF Truthy(Head(a)) THEN <<Head(a)>> \o FilterTruthy(Tail(a))
    ELSE FilterTruthy(Tail(a))

(***************************************************************************)
(* parseJsonLdRecipe and its helpers                                       *)
(***************************************************************************)
extractText(value) ==
    IF IsString(value) THEN value
    ELSE IF Truthy(value) /\ Truthy(Get(value, "text")) THEN Get(value, "text")
    ELSE IF Truthy(value) /\ Truthy(Get(value, "@value")) THEN Get(value, "@value")
    ELSE Str(<<>>)

\* Variant: no entry is dropped
extractArrayKeepAll(value) ==
    IF ~Truthy(value) THEN <<>>
    ELSE IF IsArray(value)
         THEN [i \in 1..Len(value.v) |-> extractText(value.v[i])]
    ELSE <<extractText(value)>>

extractArray(value) ==
    IF ~Truthy(value) THEN <<>>
    ELSE IF IsArray(value)
         THEN FilterTruthy([i \in 1..Len(value.v) |-> extractText(value.v[i])])
    ELSE FilterTruthy(<<extractText(value)>>)

\* instruction.replace(/^\d+\.\s*/, '')
LeadingDigits(s) ==
    CHOOSE i \in 0..Len(s) :
        /\ \A j \in 1..i : s[j] \in Digits
        /\ (i < Len(s) => s[i + 1] \notin Digits)
StripOrdinal(s) ==
    LET d == LeadingDigits(s) IN
    IF d >= 1 /\ d < Len(s) /\ s[d + 1] = "."
    THEN LET rest == SubSeq(s, d + 2, Len(s)) IN
         SubSeq(rest, LeadingWs(rest) + 1, Len(rest))
    ELSE s

\* (instruction) => instruction.replace(/^\d+\.\s*/, '').trim()
CleanInstruction(s) == trim(StripOrdinal(s))

\* Decimal digits to a number and back (template literal `${n}`)
DigitVal(c) ==
    CASE c = "0" -> 0 [] c = "1" -> 1 [] c = "2" -> 2 [] c = "3" -> 3
      [] c = "4" -> 4 [] c = "5" -> 5 [] c = "6" -> 6 [] c = "7" -> 7
      [] c = "8" -> 8 [] c = "9" -> 9
DigitChar(d) == CHOOSE c \in Digits : DigitVal(c) = d
RECURSIVE DigitsToInt(_)
DigitsToInt(s) ==
    IF s = <<>> THEN 0
    ELSE 10 * DigitsToInt(SubSeq(s, 1, Len(s) - 1)) + DigitVal(s[Len(s)])
RECURSIVE IntToDigits(_)
IntToDigits(n) ==
    IF n < 10 THEN <<DigitChar(n)>>
    ELSE IntToDigits(n \div 10) \o <<DigitChar(n % 10)>>

\* parseInt(string): leading white space, an optional sign, then the longest
\* prefix of decimal digits (a "0x" prefix selects base 16, of which only
\* the digits 0-9 occur in the inputs modelled); NaN when no digit follows.
parseInt(s) ==
    LET t == SubSeq(s, LeadingWs(s) + 1, Len(s))
        neg == t # <<>> /\ t[1] = "-"
        u == IF t # <<>> /\ t[1] \in {"+", "-"} THEN Tail(t) ELSE t
        hex == Len(u) >= 2 /\ u[1] = "0" /\ u[2] \in {"x", "X"}
        w == IF hex THEN SubSeq(u, 3, Len(u)) ELSE u
        d == LeadingDigits(w)
        RECURSIVE Val(_)
        Val(q) == IF q = <<>> THEN 0
                  ELSE (IF hex THEN 16 ELSE 10) * Val(SubSeq(q, 1, Len(q) - 1))
                       + DigitVal(q[Len(q)])
    IN IF d = 0 THEN NaN
       ELSE Num(IF neg THEN 0 - Val(SubSeq(w, 1, d)) ELSE Val(SubSeq(w, 1, d)))

\* duration.match(/PT(?:(\d+)H)?(?:(\d+)M)?/): the leftmost "PT", then the
\* optional groups; the result is <<found, hours digits, minutes digits>>.
MatchDuration(s) ==
    LET starts == {i \in 1..(Len(s) - 1) : s[i] = "P" /\ s[i + 1] = "T"} IN
    IF starts = {} THEN [found |-> FALSE, h |-> <<>>, m |-> <<>>]
    ELSE LET p == CHOOSE i \in starts : \A j \in starts : i <= j
             r1 == SubSeq(s, p + 2, Len(s))
             d1 == LeadingDigits(r1)
             g1 == d1 >= 1 /\ d1 < Len(r1) /\ r1[d1 + 1] = "H"
             r2 == IF g1 THEN SubSeq(r1, d1 + 2, Len(r1)) ELSE r1
             d2 == LeadingDigits(r2)
             g2 == d2 >= 1 /\ d2 < Len(r2) /\ r2[d2 + 1] = "M"
         IN [found |-> TRUE,
             h |-> IF g1 THEN SubSeq(r1, 1, d1) ELSE <<>>,
             m |-> IF g2 THEN SubSeq(r2, 1, d2) ELSE <<>>]

extractTime(duration) ==
    IF ~Truthy(duration) THEN Str(<<>>)
    ELSE IF IsString(duration) /\ MatchDuration(duration.v).found
         /\ (DigitsToInt(MatchDuration(duration.v).h) # 0
             \/ DigitsToInt(MatchDuration(duration.v).m) # 0)
    THEN LET match == MatchDuration(duration.v)
             hours == DigitsToInt(match.h)
             minutes == DigitsToInt(match.m)
         IN IF hours # 0 /\ minutes # 0
            THEN Str(IntToDigits(hours) \o <<"h", " ">> \o IntToDigits(minutes)
                     \o <<"m", "i", "n">>)
            ELSE IF hours # 0 THEN Str(IntToDigits(hours) \o <<"h">>)
            ELSE Str(IntToDigits(minutes) \o <<"m", "i", "n">>)
    ELSE extractText(duration)

\* Variant: a value that is no number becomes 0
extractNumberOrZero(value) ==
    IF value.k = "num" THEN value
    ELSE IF IsString(value)
    THEN (IF parseInt(value.v).k = "nan" THEN Num(0) ELSE parseInt(value.v))
    ELSE Num(0)

extractNumber(value) ==
    IF value.k = "num" THEN value
    ELSE IF IsString(value)
    THEN (IF parseInt(value.v).k = "nan" THEN Undef ELSE parseInt(value.v))
    ELSE Undef

\* The record parseJsonLdRecipe returns, or a TypeError: .replace is called
\* on every entry extractArray kept, and only strings have it.
parseJsonLdRecipe(recipe) ==
    LET rawInstructions == extractArray(Get(recipe, "recipeInstructions"))
        image == Get(recipe, "image")
        imageUrl == IF CanRead(image) THEN Get(image, "url") ELSE Undef
    IN IF Truthy(Get(recipe, "recipeInstructions"))
          /\ \E i \in 1..Len(rawInstructions) : ~IsString(rawInstructions[i])
       THEN Throw("TypeError")
       ELSE [k |-> "rec",
             title |-> extractText(Get(recipe, "name")),
             description |-> extractText(Get(recipe, "description")),
             image |-> extractText(OrElse(imageUrl, image)),
             prepTime |-> extractTime(Get(recipe, "prepTime")),
             cookTime |-> extractTime(Get(recipe, "cookTime")),
             totalTime |-> extractTime(Get(recipe, "totalTime")),
             servings |-> extractNumber(OrElse(Get(recipe, "recipeYield"),
                                               Get(recipe, "yield"))),
             difficulty |-> Undef,
             ingredients |-> Arr(extractArray(Get(recipe, "recipeIngredient"))),
             instructions |->
                 IF Truthy(Get(recipe, "recipeInstructions"))
                 THEN Arr([i \in 1..Len(rawInstructions) |->
                              Str(CleanInstruction(rawInstructions[i].v))])
                 ELSE Arr(<<>>),
             tags |-> Arr(extractArray(Get(recipe, "recipeCategory"))
                          \o extractArray(Get(recipe, "recipeCuisine")))]

(***************************************************************************)
(* findRecipeInJsonLd and extractFromJsonLd                                *)
(***************************************************************************)
RecipeType == Str(<<"R", "e", "c", "i", "p", "e">>)

\* The outcome is a "rec" record, Null, or a thrown TypeError: data['@type']
\* on null raises, and so may the mapping of the matched record.
RECURSIVE findRecipeInJsonLd(_)
findRecipeInJsonLd(data) ==
    IF IsArray(data)
    THEN LET RECURSIVE Scan(_)
             Scan(i) ==
                 IF i > Len(data.v) THEN Null
                 ELSE LET recipe == findRecipeInJsonLd(data.v[i]) IN
                      IF IsThrow(recipe) THEN recipe
                      ELSE IF recipe.k # "null" THEN recipe
                      ELSE Scan(i + 1)
         IN Scan(1)
    ELSE IF ~CanRead(data) THEN Throw("TypeError")
    ELSE IF StrictEq(Get(data, "@type"), RecipeType) THEN parseJsonLdRecipe(data)
    ELSE IF Truthy(Get(data, "@graph")) THEN findRecipeInJsonLd(Get(data, "@graph"))
    ELSE Null

\* JSON.parse(scriptContent): a SyntaxError for text that is no JSON, else
\* the value the text denotes.
JSONparse(content) ==
    IF content.kind = "json" THEN content.val ELSE Throw("SyntaxError")

\* Variant: a block that is no JSON ends the scan with null
JsonLdIterationAbort(d, i) ==
    LET scriptContent == d.scripts[i] IN
    IF scriptContent.kind = "empty" THEN [next |-> "continue", recipe |-> Null]
    ELSE LET data == JSONparse(scriptContent) IN
         IF IsThrow(data) THEN [next |-> "return", recipe |-> Null]
         ELSE LET recipe == findRecipeInJsonLd(data) IN
              IF IsThrow(recipe) THEN [next |-> "continue", recipe |-> Null]
              ELSE IF recipe.k # "null" THEN [next |-> "return", recipe |-> recipe]
              ELSE [next |-> "continue", recipe |-> Null]

\* Variant: no catch around the search, what it throws leaves the extractor
JsonLdIterationRethrow(d, i) ==
    LET scriptContent == d.scripts[i] IN
    IF scriptContent.kind = "empty" THEN [next |-> "continue", recipe |-> Null]
    ELSE LET data == JSONparse(scriptContent) IN
         IF IsThrow(data) THEN [next |-> "continue", recipe |-> Null]
         ELSE LET recipe == findRecipeInJsonLd(data) IN
              IF IsThrow(recipe) THEN [next |-> "return", recipe |-> recipe]
              ELSE IF recipe.k # "null" THEN [next |-> "return", recipe |-> recipe]
              ELSE [next |-> "continue", recipe |-> Null]

\* One iteration of the loop of extractFromJsonLd on block i of document d:
\* "continue" (empty content, a parse error, a throw of the search, or no
\* recipe in the block) or "return" with the recipe found.
JsonLdIteration(d, i) ==
    LET scriptContent == d.scripts[i] IN
    IF scriptContent.kind = "empty" THEN [next |-> "continue", recipe |-> Null]
    ELSE LET data == JSONparse(scriptContent) IN
         IF IsThrow(data) THEN [next |-> "continue", recipe |-> Null]
         ELSE LET recipe == findRecipeInJsonLd(data) IN
              IF IsThrow(recipe) THEN [next |-> "continue", recipe |-> Null]
              ELSE IF recipe.k # "null" THEN [next |-> "return", recipe |-> recipe]
              ELSE [next |-> "continue", recipe |-> Null]

(***************************************************************************)
(* extractFromMicrodata                                                    *)
(* d.items: the elements carrying an itemtype attribute, in document       *)
(* order; an itemtype is a sequence of tokens; props: the descendants      *)
(* carrying an itemprop attribute, in document order.                      *)
(***************************************************************************)
RecipeMarker == "schema.org/Recipe"

\* Variant: every element with an itemtype counts as a recipe element
RecipeElementsAnyType(d) == {i \in 1..Len(d.items) : TRUE}

\* $('[itemtype*="schema.org/Recipe"]')
RecipeElements(d) ==
    {i \in 1..Len(d.items) :
        \E j \in 1..Len(d.items[i].itemtype) : d.items[i].itemtype[j] = RecipeMarker}

RECURSIVE PropValues(_, _)
PropValues(props, prop) ==
    IF props = <<>> THEN <<>>
    ELSE LET el == Head(props)
             text == OrElse(Str(trim(el.text)), OrElse(el.content, Str(<<>>)))
         IN (IF el.itemprop = prop /\ Truthy(text) THEN <<text>> ELSE <<>>)
            \o PropValues(Tail(props), prop)

\* extractProp(prop)[0]
FirstOrUndef(values) == IF values = <<>> THEN Undef ELSE values[1]

extractFromMicrodata(d) ==
    IF RecipeElements(d) = {} THEN Null
    ELSE LET first == CHOOSE i \in RecipeElements(d) :
                          \A j \in RecipeElements(d) : i <= j
             recipeElement == d.items[first]
             extractProp(prop) == PropValues(recipeElement.props, prop)
             title == FirstOrUndef(extractProp("name"))
             images == SelectSeq(recipeElement.props, LAMBDA el : el.itemprop = "image")
             yield == FirstOrUndef(extractProp("recipeYield"))
         IN IF ~Truthy(title) THEN Null
            ELSE [k |-> "rec",
                  title |-> title,
                  description |-> FirstOrUndef(extractProp("description")),
                  image |-> IF images = <<>> THEN Undef ELSE images[1].src,
                  prepTime |-> FirstOrUndef(extractProp("prepTime")),
                  cookTime |-> FirstOrUndef(extractProp("cookTime")),
                  totalTime |-> FirstOrUndef(extractProp("totalTime")),
                  servings |-> OrElse(IF yield.k = "str" THEN parseInt(yield.v) ELSE NaN,
                                      Undef),
                  difficulty |-> Undef,
                  ingredients |-> Arr(extractProp("recipeIngredient")),
                  instructions |-> Arr(extractProp("recipeInstructions")),
                  tags |-> Undef]

(***************************************************************************)
(* extractFromCommonSelectors                                              *)
(* d.els: the elements of the document in document order, each with its    *)
(* tag, the class names of its class attribute, the class names carried    *)
(* by its ancestors, and its text content.                                 *)
(***************************************************************************)
ClassSel(c) == [t |-> "class", tag |-> "", cls |-> c]          \* .c
TagClassSel(tg, c) == [t |-> "tagclass", tag |-> tg, cls |-> c] \* tg.c
DescSel(c, tg) == [t |-> "desc", tag |-> tg, cls |-> c]         \* .c tg
AttrSubSel(c) == [t |-> "attrsub", tag |-> "", cls |-> c]       \* [class*="c"]

cRecipeTitle == <<"r", "e", "c", "i", "p", "e", "-", "t", "i", "t", "l", "e">>
cEntryTitle == <<"e", "n", "t", "r", "y", "-", "t", "i", "t", "l", "e">>
cRecipeName == <<"r", "e", "c", "i", "p", "e", "-", "n", "a", "m", "e">>
cRecipeHeader == <<"r", "e", "c", "i", "p", "e", "-", "h", "e", "a", "d", "e", "r">>
cRecipeIngredient == <<"r", "e", "c", "i", "p", "e", "-", "i", "n", "g", "r", "e", "d", "i", "e", "n", "t">>
cIngredient == <<"i", "n", "g", "r", "e", "d", "i", "e", "n", "t">>
cRecipeIngredients == <<"r", "e", "c", "i", "p", "e", "-", "i", "n", "g", "r", "e", "d", "i", "e", "n", "t", "s">>
cIngredients == <<"i", "n", "g", "r", "e", "d", "i", "e", "n", "t", "s">>
cRecipeInstruction == <<"r", "e", "c", "i", "p", "e", "-", "i", "n", "s", "t", "r", "u", "c", "t", "i", "o", "n">>
cInstruction == <<"i", "n", "s", "t", "r", "u", "c", "t", "i", "o", "n">>
cRecipeInstructions == <<"r", "e", "c", "i", "p", "e", "-", "i", "n", "s", "t", "r", "u", "c", "t", "i", "o", "n", "s">>
cRecipeMethod == <<"r", "e", "c", "i", "p", "e", "-", "m", "e", "t", "h", "o", "d">>
cDirections == <<"d", "i", "r", "e", "c", "t", "i", "o", "n", "s">>

titleSelectors ==
    <<ClassSel(cRecipeTitle), ClassSel(cEntryTitle), TagClassSel("h1", cRecipeName),
      DescSel(cRecipeHeader, "h1"), AttrSubSel(cRecipeTitle), AttrSubSel(cRecipeName)>>

ingredientSelectors ==
    <<ClassSel(cRecipeIngredient), ClassSel(cIngredient),
      DescSel(cRecipeIngredients, "li"), AttrSubSel(cIngredient),
      DescSel(cIngredients, "li")>>

instructionSelectors ==
    <<ClassSel(cRecipeInstruction), ClassSel(cInstruction),
      DescSel(cRecipeInstructions, "li"), DescSel(cRecipeMethod, "li"),
      AttrSubSel(cInstruction), DescSel(cDirections, "li")>>

\* sub occurs in s as a contiguous substring
Contains(s, sub) ==
    \E i \in 0..(Len(s) - Len(sub)) : SubSeq(s, i + 1, i + Len(sub)) = sub

HasClass(el, c) == \E i \in 1..Len(el.classes) : el.classes[i] = c

Matches(el, sel) ==
    CASE sel.t = "class" -> HasClass(el, sel.cls)
      [] sel.t = "tagclass" -> el.tag = sel.tag /\ HasClass(el, sel.cls)
      [] sel.t = "desc" -> el.tag = sel.tag /\ sel.cls \in el.anc
      [] sel.t = "attrsub" ->
            \E i \in 1..Len(el.classes) : Contains(el.classes[i], sel.cls)

\* $(selector): the matching elements in document order
Select(d, sel) == SelectSeq(d.els, LAMBDA el : Matches(el, sel))

RECURSIVE findTextBySelectorsFrom(_, _, _)
findTextBySelectorsFrom(d, selectors, n) ==
    IF n > Len(selectors) THEN <<>>
    ELSE LET elements == Select(d, selectors[n]) IN
         IF elements # <<>> /\ trim(elements[1].text) # <<>>
         THEN trim(elements[1].text)
         ELSE findTextBySelectorsFrom(d, selectors, n + 1)

findTextBySelectors(d, selectors) == findTextBySelectorsFrom(d, selectors, 1)

RECURSIVE NonEmptyTexts(_)
NonEmptyTexts(elements) ==
    IF elements = <<>> THEN <<>>
    ELSE (IF trim(Head(elements).text) # <<>>
          THEN <<Str(trim(Head(elements).text))>> ELSE <<>>)
         \o NonEmptyTexts(Tail(elements))

\* Variant: the texts of the later selectors are added to the winner's
RECURSIVE findMultipleTextMerged(_, _, _)
findMultipleTextMerged(d, selectors, n) ==
    IF n > Len(selectors) THEN <<>>
    ELSE NonEmptyTexts(Select(d, selectors[n]))
         \o findMultipleTextMerged(d, selectors, n + 1)

RECURSIVE findMultipleTextBySelectorsFrom(_, _, _)
findMultipleTextBySelectorsFrom(d, selectors, n) ==
    IF n > Len(selectors) THEN <<>>
    ELSE LET texts == NonEmptyTexts(Select(d, selectors[n])) IN
         IF texts # <<>> THEN texts
         ELSE findMultipleTextBySelectorsFrom(d, selectors, n + 1)

findMultipleTextBySelectors(d, selectors) ==
    findMultipleTextBySelectorsFrom(d, selectors, 1)

\* Variant: a title alone is enough for a result
extractFromCommonSelectorsTitleOnly(d) ==
    LET title == findTextBySelectors(d, titleSelectors)
        ingredients == findMultipleTextBySelectors(d, ingredientSelectors)
        instructions == findMultipleTextBySelectors(d, instructionSelectors)
    IN IF title = <<>> THEN Null
       ELSE [k |-> "rec",
             title |-> Str(trim(title)),
             description |-> Undef, image |-> Undef, prepTime |-> Undef,
             cookTime |-> Undef, totalTime |-> Undef, servings |-> Undef,
             difficulty |-> Undef,
             ingredients |-> Arr(ingredients),
             instructions |-> Arr(instructions),
             tags |-> Undef]

extractFromCommonSelectors(d) ==
    LET title == findTextBySelectors(d, titleSelectors)
        ingredients == findMultipleTextBySelectors(d, ingredientSelectors)
        instructions == findMultipleTextBySelectors(d, instructionSelectors)
    IN IF title = <<>> THEN Null
       ELSE IF Len(ingredients) = 0 /\ Len(instructions) = 0 THEN Null
       ELSE [k |-> "rec",
             title |-> Str(trim(title)),
             description |-> Undef, image |-> Undef, prepTime |-> Undef,
             cookTime |-> Undef, totalTime |-> Undef, servings |-> Undef,
             difficulty |-> Undef,
             ingredients |-> Arr(ingredients),
             instructions |-> Arr(instructions),
             tags |-> Undef]

(***************************************************************************)
(* URLs, errors and responses                                              *)
(* A URL string is the sequence of its pieces: scheme (with the colon),    *)
(* "//", host, path.  <<>> is the empty or missing url.                     *)
(***************************************************************************)
Schemes == {"http:", "https:", "HTTPS:", "ftp:", "javascript:"}
LowerScheme(sch) == IF sch = "HTTPS:" THEN "https:" ELSE sch
SpecialSchemes == {"http:", "https:", "ftp:"}

\* new URL(urlString): a TypeError without a scheme, or for a special scheme
\* without a host; else the parsed URL, whose protocol is in lower case.
URLparse(urlString) ==
    IF urlString = <<>> \/ urlString[1] \notin Schemes THEN Throw("TypeError")
    ELSE IF LowerScheme(urlString[1]) \in SpecialSchemes
            /\ ~(Len(urlString) >= 3 /\ urlString[2] = "//")
    THEN Throw("TypeError")
    ELSE [k |-> "url", protocol |-> LowerScheme(urlString[1])]

\* Variant: any URL that parses is accepted, whatever its protocol
isValidUrlAnyScheme(urlString) ==
    LET u == URLparse(urlString) IN
    IF IsThrow(u) THEN FALSE ELSE TRUE

isValidUrl(urlString) ==
    LET u == URLparse(urlString) IN
    IF IsThrow(u) THEN FALSE
    ELSE u.protocol = "http:" \/ u.protocol = "https:"

Error(nm, cd, st, msg) == [name |-> nm, code |-> cd, status |-> st, message |-> msg]
NoError == Error("", "", 0, "")
HttpsError(cd, msg) == Error("HttpsError", cd, 0, msg)

\* Variant: every other error is wrapped into a new Error as well
extractCatchWrapAll(error) ==
    IF error.name = "AxiosError" /\ error.code = "ENOTFOUND"
    THEN Error("Error", "", 0, "Website not found")
    ELSE IF error.name = "AxiosError" /\ error.status = 404
    THEN Error("Error", "", 0, "Recipe page not found")
    ELSE IF error.name = "AxiosError" /\ error.code = "ECONNABORTED"
    THEN Error("Error", "", 0, "Request timed out")
    ELSE Error("Error", "", 0, error.message)

\* The catch block of extractRecipeFromUrl
extractCatch(error) ==
    IF error.name = "AxiosError" /\ error.code = "ENOTFOUND"
    THEN Error("Error", "", 0, "Website not found")
    ELSE IF error.name = "AxiosError" /\ error.status = 404
    THEN Error("Error", "", 0, "Recipe page not found")
    ELSE IF error.name = "AxiosError" /\ error.code = "ECONNABORTED"
    THEN Error("Error", "", 0, "Request timed out")
    ELSE error

\* The catch block of scrapeRecipeV2
scrapeCatch(error) ==
    IF error.name = "HttpsError" THEN error
    ELSE HttpsError("internal", error.message)

NoDoc == [scripts |-> <<>>, items |-> <<>>, els |-> <<>>]
NoResponse == [sent |-> FALSE, ok |-> FALSE, recipe |-> Null, error |-> NoError]
Resolved(r) == [sent |-> TRUE, ok |-> TRUE, recipe |-> r, error |-> NoError]
Rejected(e) == [sent |-> TRUE, ok |-> FALSE, recipe |-> Null, error |-> e]

\* The object literal the orchestrator returns for a titled extractor result
Scraped(r, u) ==
    [k |-> "rec",
     title |-> r.title, description |-> r.description, image |-> r.image,
     prepTime |-> r.prepTime, cookTime |-> r.cookTime, totalTime |-> r.totalTime,
     servings |-> r.servings, difficulty |-> r.difficulty,
     ingredients |-> OrElse(r.ingredients, Arr(<<>>)),
     instructions |-> OrElse(r.instructions, Arr(<<>>)),
     sourceUrl |-> u,
     tags |-> r.tags]

\* if (r && r.title)
Titled(r) == r.k = "rec" /\ Truthy(r.title)

NoFailure == [kind |-> "", code |-> ""]
Pending == [k |-> "pending"]


(***************************************************************************)
(* Inputs: requests, fetch outcomes and documents                          *)
(***************************************************************************)
MaxBlocks == 2      \* script blocks per document

Urls ==
    { <<>>,
      <<"example.com", "/cake">>,
      <<"//", "example.com", "/cake">>,
      <<"http:", "//">>,
      <<"ftp:", "//", "example.com", "/cake">>,
      <<"javascript:", "alert(1)">>,
      <<"http:", "//", "example.com", "/cake">>,
      <<"HTTPS:", "//", "example.com", "/cake">> }

\* What axios.get rejects with
ErrHost == Error("AxiosError", "ENOTFOUND", 0, "getaddrinfo ENOTFOUND")
Err404 == Error("AxiosError", "ERR_BAD_REQUEST", 404, "Request failed with status code 404")
ErrTimeout == Error("AxiosError", "ECONNABORTED", 0, "timeout of 10000ms exceeded")
Err500 == Error("AxiosError", "ERR_BAD_RESPONSE", 500, "Request failed with status code 500")
ErrRefused == Error("AxiosError", "ECONNREFUSED", 0, "connect ECONNREFUSED")
FetchErrors == {ErrHost, Err404, ErrTimeout, Err500, ErrRefused}

JsonBlock(val) == [kind |-> "json", val |-> val]
EmptyBlock == [kind |-> "empty", val |-> Null]
MalformedBlock == [kind |-> "malformed", val |-> Null]

WebSite == Obj("@type" :> Str(<<"W", "e", "b", "S", "i", "t", "e">>))
RecipeA ==
    Obj("@type" :> RecipeType @@ "name" :> Str(<<" ", "A">>)
        @@ "description" :> Obj("@value" :> Str(<<"n", "i", "c", "e">>))
        @@ "image" :> Obj("url" :> Str(<<"a", ".", "p", "n", "g">>))
        @@ "prepTime" :> Str(<<"P", "T", "1", "H", "1", "5", "M">>) @@ "cookTime" :> Str(<<"P", "T", "4", "5", "M">>)
        @@ "totalTime" :> Str(<<"2", " ", "h", "o", "u", "r", "s">>)
        @@ "recipeYield" :> Str(<<"4", " ", "s", "e", "r", "v", "i", "n", "g", "s">>)
        @@ "recipeIngredient" :> Arr(<<Str(<<"f", "l", "o", "u", "r">>), Str(<<>>), Obj("text" :> Str(<<"e", "g", "g">>))>>)
        @@ "recipeInstructions" :> Arr(<<Str(<<"1", ".", " ", "M", "i", "x", " ">>), Obj("text" :> Str(<<"B", "a", "k", "e">>))>>)
        @@ "recipeCategory" :> Str(<<"d", "e", "s", "s", "e", "r", "t">>)
        @@ "recipeCuisine" :> Arr(<<Str(<<"d", "e", "s", "s", "e", "r", "t">>), Str(<<"i", "t", "a", "l", "i", "a", "n">>)>>))
RecipeB == Obj("@type" :> RecipeType @@ "name" :> Str(<<"B">>))
RecipeU == Obj("@type" :> RecipeType @@ "recipeIngredient" :> Str(<<"s", "a", "l", "t">>))
RecipeX ==
    Obj("@type" :> RecipeType @@ "name" :> Str(<<"X">>)
        @@ "recipeInstructions" :> Arr(<<Obj("text" :> Num(5))>>))
RecipeG ==
    Obj("@type" :> RecipeType @@ "name" :> Str(<<"G">>)
        @@ "recipeInstructions" :> Str(<<"S", "t", "i", "r">>))

Blocks ==
    { EmptyBlock, MalformedBlock, JsonBlock(WebSite), JsonBlock(RecipeA),
      JsonBlock(RecipeB), JsonBlock(RecipeU), JsonBlock(RecipeX),
      JsonBlock(Arr(<<Null, RecipeA>>)),
      JsonBlock(Obj("@graph" :> Arr(<<WebSite, RecipeG>>))) }

ScriptLists == UNION {[1..n -> Blocks] : n \in 0..MaxBlocks}

Prop(p, text, content, src) ==
    [itemprop |-> p, text |-> text, content |-> content, src |-> src]
ArticleItem ==
    [itemtype |-> <<"https://", "schema.org/Article">>,
     props |-> <<Prop("name", <<"N", "e", "w", "s">>, Undef, Undef)>>]
RecipeItem(props) ==
    [itemtype |-> <<"http://", "schema.org/Recipe">>, props |-> props]

ItemLists ==
    { <<>>,
      <<ArticleItem,
        RecipeItem(<<Prop("name", <<" ">>, Str(<<"M">>), Undef),
                     Prop("image", <<>>, Undef, Str(<<"m", ".", "p", "n", "g">>)),
                     Prop("recipeYield", <<"6">>, Undef, Undef),
                     Prop("recipeIngredient", <<"r", "i", "c", "e">>, Undef, Undef),
                     Prop("recipeIngredient", <<>>, Undef, Undef),
                     Prop("recipeInstructions", <<"B", "o", "i", "l">>, Undef, Undef)>>)>>,
      <<RecipeItem(<<Prop("name", <<"N">>, Undef, Undef)>>)>>,
      <<RecipeItem(<<Prop("name", <<" ">>, Undef, Undef),
                     Prop("recipeIngredient", <<"o", "a", "t", "s">>, Undef, Undef)>>),
        RecipeItem(<<Prop("name", <<"P">>, Undef, Undef)>>)>> }

El(tag, classes, anc, text) ==
    [tag |-> tag, classes |-> classes, anc |-> anc, text |-> text]

ElLists ==
    { <<>>,
      <<El("h2", <<cEntryTitle>>, {}, <<>>),
        El("h1", <<<<"m", "y", "-", "r", "e", "c", "i", "p", "e", "-", "t", "i", "t", "l", "e">>>>, {}, <<" ", "T", " ">>),
        El("li", <<>>, {cIngredients}, <<"m", "i", "l", "k">>),
        El("li", <<>>, {cIngredients}, <<" ">>),
        El("li", <<>>, {cIngredients}, <<"t", "e", "a">>)>>,
      <<El("h1", <<cRecipeTitle>>, {}, <<"S">>)>>,
      <<El("h1", <<>>, {cRecipeHeader}, <<"H">>),
        El("p", <<cInstruction>>, {}, <<"C", "h", "o", "p">>)>> }

Docs == [scripts : ScriptLists, items : ItemLists, els : ElLists]

(***************************************************************************)
(* scrapeRecipeV2 and extractRecipeFromUrl as a state machine              *)
(***************************************************************************)
Idle == /\ fnIn = Pending /\ fnOut = Pending

NoResult == [success |-> FALSE, code |-> "", canRetry |-> FALSE, allowManualEdit |-> FALSE]

\* Nothing outside the request and the import is in progress
ProviderIdle ==
    /\ user = FALSE
    /\ activeImports = <<>>
    /\ jobIdCounter = 0
    /\ imports = <<>>

StoreIdle == kidRecipes = <<>> /\ ops = <<>>

ReportsIdle ==
    /\ arrays = <<>>
    /\ pendingReports = 0
    /\ isOnline = TRUE
    /\ senders = <<>>
    /\ reported = 0
    /\ delivered = <<>>

AppIdle == calls = <<>> /\ ProviderIdle /\ StoreIdle /\ ReportsIdle

\* No importFromUrl call is in progress
ClientIdle ==
    /\ iurl = <<>>
    /\ maxRetries = 0
    /\ ipc = "idle"
    /\ attempt = 0
    /\ progress = <<>>
    /\ fetchAttempts = 0
    /\ retries = <<>>
    /\ delays = <<>>
    /\ iresult = NoResult
    /\ currentUser = FALSE
    /\ lastThrown = [code |-> "", message |-> <<>>, fetched |-> FALSE]

InitRequest(u) ==
    /\ url = u
    /\ pc = "start"
    /\ fetchCalls = 0
    /\ fetchError = NoError
    /\ doc = NoDoc
    /\ tried = <<>>
    /\ jsonLdRecipe = Null
    /\ microdataRecipe = Null
    /\ cssRecipe = Null
    /\ scriptIdx = 0
    /\ examined = <<>>
    /\ thrown = NoError
    /\ response = NoResponse

Init ==
    /\ \E u \in Urls : InitRequest(u)
    /\ lastFailure = NoFailure
    /\ Idle
    /\ ClientIdle
    /\ AppIdle

\* scrapeRecipeV2 up to the call of extractRecipeFromUrl
Validate ==
    /\ pc = "start"
    /\ IF url = <<>>
       THEN /\ response' = Rejected(scrapeCatch(HttpsError("invalid-argument", "URL is required")))
            /\ pc' = "responded"
       ELSE IF ~isValidUrl(url)
       THEN /\ response' = Rejected(scrapeCatch(HttpsError("invalid-argument", "Invalid URL format")))
            /\ pc' = "responded"
       ELSE /\ response' = response
            /\ pc' = "fetching"
    /\ UNCHANGED <<url, fetchCalls, fetchError, doc, tried, jsonLdRecipe,
                   microdataRecipe, cssRecipe, scriptIdx, examined, thrown,
                   lastFailure, fnVars, clientVars, appVars>>

\* axios.get rejects: the catch blocks of extractRecipeFromUrl and of
\* scrapeRecipeV2 run
FetchFail ==
    /\ pc = "fetching"
    /\ \E e \in FetchErrors :
          /\ fetchError' = e
          /\ thrown' = extractCatch(e)
          /\ response' = Rejected(scrapeCatch(extractCatch(e)))
    /\ fetchCalls' = fetchCalls + 1
    /\ pc' = "responded"
    /\ UNCHANGED <<url, doc, tried, jsonLdRecipe, microdataRecipe, cssRecipe,
                   scriptIdx, examined, lastFailure, fnVars, clientVars, appVars>>

\* axios.get resolves, cheerio.load parses, extractFromJsonLd is entered
FetchOk(documents) ==
    /\ pc = "fetching"
    /\ \E d \in documents : doc' = d
    /\ fetchCalls' = fetchCalls + 1
    /\ tried' = Append(tried, "jsonld")
    /\ scriptIdx' = 1
    /\ pc' = "jsonld"
    /\ UNCHANGED <<url, fetchError, jsonLdRecipe, microdataRecipe, cssRecipe,
                   examined, thrown, response, lastFailure, fnVars, clientVars, appVars>>

\* One iteration of the for loop of extractFromJsonLd
JsonLdLoop ==
    /\ pc = "jsonld"
    /\ scriptIdx <= Len(doc.scripts)
    /\ examined' = Append(examined, scriptIdx)
    /\ LET it == JsonLdIteration(doc, scriptIdx) IN
       IF it.next = "return"
       THEN /\ jsonLdRecipe' = it.recipe
            /\ pc' = "jsonldReturned"
            /\ scriptIdx' = scriptIdx
       ELSE /\ scriptIdx' = scriptIdx + 1
            /\ UNCHANGED <<jsonLdRecipe, pc>>
    /\ UNCHANGED <<url, fetchCalls, fetchError, doc, tried, microdataRecipe,
                   cssRecipe, thrown, response, lastFailure, fnVars, clientVars, appVars>>

\* The loop of extractFromJsonLd ends without a match: return null
JsonLdEnd ==
    /\ pc = "jsonld"
    /\ scriptIdx > Len(doc.scripts)
    /\ jsonLdRecipe' = Null
    /\ pc' = "jsonldReturned"
    /\ UNCHANGED <<url, fetchCalls, fetchError, doc, tried, microdataRecipe,
                   cssRecipe, scriptIdx, examined, thrown, response,
                   lastFailure, fnVars, clientVars, appVars>>

\* if (jsonLdRecipe && jsonLdRecipe.title) return {...}
ReturnJsonLd ==
    /\ pc = "jsonldReturned"
    /\ Titled(jsonLdRecipe)
    /\ response' = Resolved(Scraped(jsonLdRecipe, url))
    /\ pc' = "responded"
    /\ UNCHANGED <<url, fetchCalls, fetchError, doc, tried, jsonLdRecipe,
                   microdataRecipe, cssRecipe, scriptIdx, examined, thrown,
                   lastFailure, fnVars, clientVars, appVars>>

\* Variant: microdata is consulted whatever the structured data gave
CallMicrodataAlways ==
    /\ pc = "jsonldReturned"
    /\ tried' = Append(tried, "microdata")
    /\ microdataRecipe' = extractFromMicrodata(doc)
    /\ pc' = "microdataReturned"
    /\ UNCHANGED <<url, fetchCalls, fetchError, doc, jsonLdRecipe, cssRecipe,
                   scriptIdx, examined, thrown, response, lastFailure, fnVars, clientVars, appVars>>

\* otherwise: const microdataRecipe = extractFromMicrodata($)
CallMicrodata ==
    /\ pc = "jsonldReturned"
    /\ ~Titled(jsonLdRecipe)
    /\ tried' = Append(tried, "microdata")
    /\ microdataRecipe' = extractFromMicrodata(doc)
    /\ pc' = "microdataReturned"
    /\ UNCHANGED <<url, fetchCalls, fetchError, doc, jsonLdRecipe, cssRecipe,
                   scriptIdx, examined, thrown, response, lastFailure, fnVars, clientVars, appVars>>

\* if (microdataRecipe && microdataRecipe.title) return {...}
ReturnMicrodata ==
    /\ pc = "microdataReturned"
    /\ Titled(microdataRecipe)
    /\ response' = Resolved(Scraped(microdataRecipe, url))
    /\ pc' = "responded"
    /\ UNCHANGED <<url, fetchCalls, fetchError, doc, tried, jsonLdRecipe,
                   microdataRecipe, cssRecipe, scriptIdx, examined, thrown,
                   lastFailure, fnVars, clientVars, appVars>>

\* otherwise: const cssRecipe = extractFromCommonSelectors($)
CallSelectors ==
    /\ pc = "microdataReturned"
    /\ ~Titled(microdataRecipe)
    /\ tried' = Append(tried, "selector")
    /\ cssRecipe' = extractFromCommonSelectors(doc)
    /\ pc' = "cssReturned"
    /\ UNCHANGED <<url, fetchCalls, fetchError, doc, jsonLdRecipe,
                   microdataRecipe, scriptIdx, examined, thrown, response,
                   lastFailure, fnVars, clientVars, appVars>>

\* if (cssRecipe && cssRecipe.title) return {...}
ReturnCss ==
    /\ pc = "cssReturned"
    /\ Titled(cssRecipe)
    /\ response' = Resolved(Scraped(cssRecipe, url))
    /\ pc' = "responded"
    /\ UNCHANGED <<url, fetchCalls, fetchError, doc, tried, jsonLdRecipe,
                   microdataRecipe, cssRecipe, scriptIdx, examined, thrown,
                   lastFailure, fnVars, clientVars, appVars>>

\* Variant: without any titled result an empty recipe is sent, no error
NoRecipeFoundPartial ==
    /\ pc = "cssReturned"
    /\ ~Titled(cssRecipe)
    /\ response' = Resolved(Scraped(parseJsonLdRecipe(Obj(<<>>)), url))
    /\ pc' = "responded"
    /\ UNCHANGED <<url, fetchCalls, fetchError, doc, tried, jsonLdRecipe,
                   microdataRecipe, cssRecipe, scriptIdx, examined, thrown,
                   lastFailure, fnVars, clientVars, appVars>>

\* throw new Error('No recipe data found on this page'), through both catches
NoRecipeFound ==
    /\ pc = "cssReturned"
    /\ ~Titled(cssRecipe)
    /\ thrown' = extractCatch(Error("Error", "", 0, "No recipe data found on this page"))
    /\ response' = Rejected(scrapeCatch(thrown'))
    /\ pc' = "responded"
    /\ UNCHANGED <<url, fetchCalls, fetchError, doc, tried, jsonLdRecipe,
                   microdataRecipe, cssRecipe, scriptIdx, examined,
                   lastFailure, fnVars, clientVars, appVars>>

Extract ==
    \/ JsonLdLoop \/ JsonLdEnd \/ ReturnJsonLd \/ CallMicrodata
    \/ ReturnMicrodata \/ CallSelectors \/ ReturnCss \/ NoRecipeFound

Next == Validate \/ FetchFail \/ FetchOk(Docs) \/ Extract

Spec == Init /\ [][Next]_vars

(***************************************************************************)
(* The function serving one request after another                          *)
(***************************************************************************)
\* What made the request fail, read off the request's own state
FailureKind ==
    IF fetchCalls = 0 THEN "invalid-url"
    ELSE IF fetchError = ErrHost THEN "host-unreachable"
    ELSE IF fetchError = Err404 THEN "page-not-found"
    ELSE IF fetchError = ErrTimeout THEN "timeout"
    ELSE IF fetchError # NoError THEN "fetch-error"
    ELSE "no-recipe-found"

BoundaryDocs ==
    { d \in Docs :
        /\ d.scripts \in {<<>>, <<JsonBlock(RecipeA)>>}
        /\ d.scripts # <<>> => d.items = <<>> /\ d.els = <<>>
        /\ d.items # <<>> => d.els = <<>> }

NextRequest ==
    /\ pc = "responded"
    /\ lastFailure' = IF response.ok THEN lastFailure
                      ELSE [kind |-> FailureKind, code |-> response.error.code]
    /\ \E u \in Urls : url' = u
    /\ pc' = "start"
    /\ fetchCalls' = 0
    /\ fetchError' = NoError
    /\ doc' = NoDoc
    /\ tried' = <<>>
    /\ jsonLdRecipe' = Null
    /\ microdataRecipe' = Null
    /\ cssRecipe' = Null
    /\ scriptIdx' = 0
    /\ examined' = <<>>
    /\ thrown' = NoError
    /\ response' = NoResponse
    /\ UNCHANGED <<fnVars, clientVars, appVars>>

NextBoundary == Validate \/ FetchFail \/ FetchOk(BoundaryDocs) \/ Extract \/ NextRequest

SpecBoundary == Init /\ [][NextBoundary]_vars

(***************************************************************************)
(* The client: recipeImportService.importFromUrl                           *)
(* An error thrown inside the try block is [code, message]; code "" is a    *)
(* missing code; a message is the sequence of its phrases.                  *)
(***************************************************************************)
MaxRetriesOpt == 5      \* largest options.maxRetries passed

validateUrl(urlString) ==
    LET urlObj == URLparse(urlString) IN
    IF IsThrow(urlObj) THEN FALSE
    ELSE urlObj.protocol = "http:" \/ urlObj.protocol = "https:"

ImportError(cd, retry, manual) ==
    [success |-> FALSE, code |-> cd, canRetry |-> retry, allowManualEdit |-> manual]
ImportSuccess ==
    [success |-> TRUE, code |-> "", canRetry |-> FALSE, allowManualEdit |-> FALSE]

\* message.includes(phrase)
Includes(message, phrase) == \E i \in 1..Len(message) : message[i] = phrase

\* Variant: every failure is classified retryable
parseErrorRetryAll(error) ==
    IF error.code = "invalid-argument" THEN ImportError("INVALID_RECIPE", TRUE, TRUE)
    ELSE ImportError("UNKNOWN_ERROR", TRUE, TRUE)

\* parseError; an absent allowManualEdit is FALSE
parseError(error) ==
    IF error.code # ""
    THEN CASE error.code = "unauthenticated" -> ImportError("UNAUTHENTICATED", FALSE, FALSE)
           [] error.code = "resource-exhausted" -> ImportError("RATE_LIMITED", FALSE, FALSE)
           [] error.code = "invalid-argument" ->
                 IF Includes(error.message, "No recipe data found")
                 THEN ImportError("NO_RECIPE_FOUND", FALSE, TRUE)
                 ELSE IF Includes(error.message, "Missing instructions")
                 THEN ImportError("MISSING_INSTRUCTIONS", FALSE, TRUE)
                 ELSE IF Includes(error.message, "Missing ingredients")
                 THEN ImportError("MISSING_INGREDIENTS", FALSE, TRUE)
                 ELSE ImportError("INVALID_RECIPE", FALSE, TRUE)
           [] error.code = "not-found" -> ImportError("PAGE_NOT_FOUND", FALSE, FALSE)
           [] error.code = "deadline-exceeded" -> ImportError("TIMEOUT", TRUE, FALSE)
           [] OTHER -> ImportError("UNKNOWN_ERROR", TRUE, TRUE)
    ELSE IF Includes(error.message, "Network Error") \/ Includes(error.message, "ENOTFOUND")
    THEN ImportError("NETWORK_ERROR", TRUE, FALSE)
    ELSE ImportError("IMPORT_FAILED", TRUE, TRUE)

Thrown(cd, msg, fetched) == [code |-> cd, message |-> msg, fetched |-> fetched]
NoThrown == Thrown("", <<>>, FALSE)
NotAuthenticated == Thrown("", <<"User not authenticated">>, FALSE)

\* What one attempt may throw; fetched tells whether fetch() was called
AttemptErrors ==
    { NotAuthenticated,
      Thrown("auth/network-request-failed", <<"Firebase: Error">>, FALSE),
      Thrown("", <<"Network request failed">>, TRUE),
      Thrown("", <<"getaddrinfo ", "ENOTFOUND">>, TRUE),
      Thrown("", <<"HTTP 500">>, TRUE),
      Thrown("", <<"Import failed">>, TRUE),
      Thrown("unauthenticated", <<"Unauthorized">>, TRUE),
      Thrown("resource-exhausted", <<"Daily limit reached">>, TRUE),
      Thrown("invalid-argument", <<"No recipe data found", " on this page">>, TRUE),
      Thrown("invalid-argument", <<"Missing instructions">>, TRUE),
      Thrown("invalid-argument", <<"Missing ingredients">>, TRUE),
      Thrown("invalid-argument", <<"Invalid URL format">>, TRUE),
      Thrown("not-found", <<"Recipe page not found">>, TRUE),
      Thrown("deadline-exceeded", <<"Request timed out">>, TRUE),
      Thrown("internal", <<"Internal error">>, TRUE) }

\* Variant: the delay doubles without a ceiling
BackoffDelayUncapped(n) == 1000 * (2 ^ (n - 1))

\* Math.min(1000 * Math.pow(2, attempt - 1), 5000)
BackoffDelay(n) ==
    LET d == 1000 * (2 ^ (n - 1)) IN IF d < 5000 THEN d ELSE 5000

InitImport ==
    /\ iurl \in Urls
    /\ maxRetries \in 0..MaxRetriesOpt
    /\ ipc = "called"
    /\ attempt = 0
    /\ progress = <<>>
    /\ fetchAttempts = 0
    /\ retries = <<>>
    /\ delays = <<>>
    /\ iresult = NoResult
    /\ currentUser \in BOOLEAN
    /\ lastThrown = NoThrown

\* onProgress(VALIDATING) and the validateUrl check
ImportValidate ==
    /\ ipc = "called"
    /\ progress' = Append(progress, "validating")
    /\ IF ~validateUrl(iurl)
       THEN /\ iresult' = ImportError("INVALID_URL", FALSE, TRUE)
            /\ ipc' = "returned"
            /\ attempt' = attempt
       ELSE /\ attempt' = 1
            /\ ipc' = "loop"
            /\ iresult' = iresult
    /\ UNCHANGED <<iurl, maxRetries, currentUser, lastThrown, fetchAttempts, retries, delays,
                   serverVars, fnVars, appVars>>

\* The loop test, then onProgress(FETCHING)
ImportEnterAttempt ==
    /\ ipc = "loop"
    /\ attempt <= maxRetries
    /\ progress' = Append(progress, "fetching")
    /\ ipc' = "attempt"
    /\ UNCHANGED <<iurl, maxRetries, currentUser, lastThrown, attempt, fetchAttempts, retries, delays,
                   iresult, serverVars, fnVars, appVars>>

\* The loop test fails: the return after the loop
ImportLoopExit ==
    /\ ipc = "loop"
    /\ attempt > maxRetries
    /\ iresult' = ImportError("MAX_RETRIES_EXCEEDED", TRUE, TRUE)
    /\ ipc' = "returned"
    /\ UNCHANGED <<iurl, maxRetries, currentUser, lastThrown, attempt, progress, fetchAttempts, retries,
                   delays, serverVars, fnVars, appVars>>

\* A user is signed in and the endpoint answers with result.success
ImportAttemptSucceeds ==
    /\ ipc = "attempt"
    /\ currentUser
    /\ fetchAttempts' = fetchAttempts + 1
    /\ progress' = Append(progress, "complete")
    /\ iresult' = ImportSuccess
    /\ ipc' = "returned"
    /\ UNCHANGED <<iurl, maxRetries, currentUser, lastThrown, attempt, retries, delays, serverVars, fnVars, appVars>>

\* The try block throws (without a signed-in user: at the currentUser test,
\* before anything is fetched): the catch block
ImportAttemptFails ==
    /\ ipc = "attempt"
    /\ \E error \in AttemptErrors :
          LET importError == parseError(error) IN
          /\ currentUser <=> error # NotAuthenticated
          /\ lastThrown' = error
          /\ fetchAttempts' = IF error.fetched THEN fetchAttempts + 1 ELSE fetchAttempts
          /\ IF ~importError.canRetry \/ attempt = maxRetries
             THEN /\ progress' = Append(progress, "error")
                  /\ iresult' = importError
                  /\ ipc' = "returned"
                  /\ UNCHANGED <<retries, delays>>
             ELSE /\ IF attempt < maxRetries
                     THEN /\ retries' = Append(retries, attempt)
                          /\ delays' = Append(delays, BackoffDelay(attempt))
                          /\ ipc' = "delaying"
                     ELSE /\ ipc' = "next"
                          /\ UNCHANGED <<retries, delays>>
                  /\ UNCHANGED <<progress, iresult>>
    /\ UNCHANGED <<iurl, maxRetries, currentUser, attempt, serverVars, fnVars, appVars>>

\* The delay elapses; attempt++
ImportNextAttempt ==
    /\ ipc \in {"delaying", "next"}
    /\ attempt' = attempt + 1
    /\ ipc' = "loop"
    /\ UNCHANGED <<iurl, maxRetries, currentUser, lastThrown, progress, fetchAttempts, retries, delays,
                   iresult, serverVars, fnVars, appVars>>

NextImport ==
    \/ ImportValidate \/ ImportEnterAttempt \/ ImportLoopExit
    \/ ImportAttemptSucceeds \/ ImportAttemptFails \/ ImportNextAttempt

\* No request is being served
ServerIdle ==
    /\ url = <<>>
    /\ pc = "idle"
    /\ fetchCalls = 0
    /\ fetchError = NoError
    /\ doc = NoDoc
    /\ tried = <<>>
    /\ jsonLdRecipe = Null
    /\ microdataRecipe = Null
    /\ cssRecipe = Null
    /\ scriptIdx = 0
    /\ examined = <<>>
    /\ thrown = NoError
    /\ response = NoResponse
    /\ lastFailure = NoFailure

InitClient == InitImport /\ ServerIdle /\ Idle /\ AppIdle

SpecImport == InitClient /\ [][NextImport]_vars

(***************************************************************************)
(* One request to the function and one client import, side by side         *)
(***************************************************************************)
InitSystem ==
    /\ \E u \in Urls : InitRequest(u)
    /\ lastFailure = NoFailure
    /\ Idle
    /\ InitImport
    /\ AppIdle

NextSystem ==
    Validate \/ FetchFail \/ FetchOk(BoundaryDocs) \/ Extract \/ NextImport

SpecSystem == InitSystem /\ [][NextSystem]_vars

(***************************************************************************)
(* findRecipeInJsonLd applied to deserialized JSON values                  *)
(***************************************************************************)
MaxDepth == 2       \* nesting depth of lists and @graph wrappers
MaxListLen == 2     \* elements per list

JsonLeaves == {Null, Str(<<"x">>), Num(5), WebSite, RecipeB, RecipeG, RecipeX}

SeqsUpTo(S, n) == UNION {[1..m -> S] : m \in 0..n}

RECURSIVE JsonValues(_)
JsonValues(depth) ==
    IF depth = 0 THEN JsonLeaves
    ELSE LET inner == JsonValues(depth - 1) IN
         inner
         \cup {Arr(a) : a \in SeqsUpTo(inner, MaxListLen)}
         \cup {Obj("@graph" :> x) : x \in inner}

InitFind ==
    /\ fnIn \in JsonValues(MaxDepth)
    /\ fnOut = Pending
    /\ ServerIdle
    /\ ClientIdle
    /\ AppIdle

CallFind ==
    /\ fnOut = Pending
    /\ fnOut' = findRecipeInJsonLd(fnIn)
    /\ UNCHANGED <<fnIn, serverVars, clientVars, appVars>>

SpecFind == InitFind /\ [][CallFind]_vars

(***************************************************************************)
(* parseJsonLdRecipe applied to one record                                 *)
(* The helpers extractText, extractArray, extractTime and extractNumber    *)
(* are closures of parseJsonLdRecipe: they are exercised through the       *)
(* fields of the record it returns.                                        *)
(***************************************************************************)
MaxAmount == 11     \* largest hour and minute count of a duration
MaxEntries == 2     \* entries of a list-valued field

\* Digit strings of a duration component, one of them with a leading zero
Amounts == {IntToDigits(n) : n \in 0..MaxAmount} \cup {<<"0", "5">>}
OptPart(unit) == {<<>>} \cup {a \o <<unit>> : a \in Amounts}

\* Values of prepTime / cookTime / totalTime: ISO 8601 durations with and
\* without day, hour, minute and second components, with and without text
\* in front, and strings that are no durations.
Durations ==
    {pre \o <<"P">> \o day \o <<"T">> \o h \o m \o s :
        pre \in {<<>>, <<"x">>}, day \in {<<>>, <<"1", "D">>},
        h \in OptPart("H"), m \in OptPart("M"), s \in {<<>>, <<"3", "0", "S">>}}
    \cup {<<>>, <<"b", "o", "g", "u", "s">>, <<"2", " ", "h", "o", "u", "r", "s">>, <<"P", "1", "D">>, <<"p", "t", "5", "m">>}

Named(field, val) == Obj("name" :> Str(<<"A">>) @@ field :> val)

TimeRecipes == {Named("prepTime", Str(d)) : d \in Durations}

\* Instruction texts: optional white space, an optional ordinal, optional
\* white space, a body, optional white space
InstructionTexts ==
    {lead \o ord \o gap \o body \o trail :
        lead \in {<<>>, <<" ">>}, ord \in {<<>>, <<"1", ".">>, <<"1", "2", ".">>},
        gap \in {<<>>, <<" ">>, <<" ", " ">>}, body \in {<<>>, <<"M", "i", "x", " ", "w", "e", "l", "l">>, <<"5", " ", "c", "u", "p", "s">>},
        trail \in {<<>>, <<" ">>}}

InstructionRecipes ==
    {Named("recipeInstructions", Arr(<<Str(s)>>)) : s \in InstructionTexts}

\* o with one more property; a missing property is left out
WithField(o, field, val) ==
    IF val = Undef THEN o ELSE Obj((field :> val) @@ o.v)

\* Values of recipeCategory and recipeCuisine: missing, a single string, or
\* a list of strings and text objects
TagEntries == {Str(<<"d", "e", "s", "s", "e", "r", "t">>), Str(<<"i", "t", "a", "l", "i", "a", "n">>), Obj("text" :> Str(<<"d", "e", "s", "s", "e", "r", "t">>))}
TagValues ==
    {Undef, Str(<<"d", "e", "s", "s", "e", "r", "t">>), Str(<<"i", "t", "a", "l", "i", "a", "n">>)}
    \cup {Arr(a) : a \in SeqsUpTo(TagEntries, MaxEntries)}

TagRecipes ==
    {WithField(WithField(Obj("name" :> Str(<<"A">>)), "recipeCategory", c),
               "recipeCuisine", u) : c \in TagValues, u \in TagValues}

\* Values of recipeYield and yield
YieldValues ==
    {Undef, Null, Num(4), Num(0), Str(<<>>), Str(<<"4">>), Str(<<"0">>), Str(<<" ", "4">>),
     Str(<<"-", "3">>), Str(<<"4", " ", "s", "e", "r", "v", "i", "n", "g", "s">>), Str(<<"4", ".", "5">>), Str(<<"1", "2", "a", "b", "c">>), Str(<<"0", "x", "1", "0">>),
     Str(<<"a", "b", "c">>), Str(<<"s", "e", "r", "v", "e", "s", " ", "4">>), Arr(<<Str(<<"4">>)>>), Arr(<<>>),
     Obj("@value" :> Str(<<"4">>))}

YieldRecipes ==
    {WithField(WithField(Obj("name" :> Str(<<"A">>)), "recipeYield", y),
               "yield", z) : y \in YieldValues, z \in {Undef, Num(6)}}

\* Entries of a list-valued field: the three text shapes, empty and
\* non-text values
ListEntries ==
    {Str(<<"s", "a", "l", "t">>), Str(<<>>), Str(<<" ">>), Obj("text" :> Str(<<"e", "g", "g">>)),
     Obj("@value" :> Str(<<"o", "i", "l">>)), Obj("text" :> Str(<<>>) @@ "@value" :> Str(<<"o", "i", "l">>)),
     Obj("name" :> Str(<<"x">>)), Obj("text" :> Num(5)), Null, Num(0)}
ListValues ==
    {Undef, Null} \cup ListEntries
    \cup {Arr(a) : a \in SeqsUpTo(ListEntries, MaxEntries)}
ListFields == {"recipeIngredient", "recipeInstructions", "recipeCategory", "recipeCuisine"}

ListRecipes ==
    {WithField(Obj("name" :> Str(<<"A">>)), f, val) : f \in ListFields, val \in ListValues}

ParseInputs ==
    TimeRecipes \cup InstructionRecipes \cup TagRecipes \cup YieldRecipes
    \cup ListRecipes

InitParse ==
    /\ fnIn \in ParseInputs
    /\ fnOut = Pending
    /\ ServerIdle
    /\ ClientIdle
    /\ AppIdle

CallParse ==
    /\ fnOut = Pending
    /\ fnOut' = parseJsonLdRecipe(fnIn)
    /\ UNCHANGED <<fnIn, serverVars, clientVars, appVars>>

SpecParse == InitParse /\ [][CallParse]_vars

(***************************************************************************)
(* extractFromMicrodata applied to one document                            *)
(***************************************************************************)
MaxProps == 2       \* itemprop descendants of a microdata item

PropPool ==
    {Prop("name", <<"N">>, Undef, Undef),
     Prop("name", <<" ">>, Str(<<"M">>), Undef),
     Prop("name", <<>>, Undef, Undef),
     Prop("name", <<" ", "P", " ">>, Str(<<"Q">>), Undef),
     Prop("recipeIngredient", <<"r", "i", "c", "e">>, Undef, Undef),
     Prop("recipeYield", <<"6">>, Undef, Undef),
     Prop("image", <<>>, Undef, Str(<<"m", ".", "p", "n", "g">>))}
PropLists == SeqsUpTo(PropPool, MaxProps)

\* Documents without a recipe item, with one (alone or after an article),
\* and with two
MicrodataItemLists ==
    {<<>>, <<ArticleItem>>}
    \cup {<<RecipeItem(p)>> : p \in PropLists}
    \cup {<<ArticleItem, RecipeItem(p)>> : p \in PropLists}
    \cup {<<RecipeItem(p), RecipeItem(<<Prop("name", <<"Z">>, Undef, Undef)>>)>> : p \in PropLists}

InitMicrodata ==
    /\ fnIn \in {[scripts |-> <<>>, items |-> x, els |-> <<>>] : x \in MicrodataItemLists}
    /\ fnOut = Pending
    /\ ServerIdle
    /\ ClientIdle
    /\ AppIdle

CallExtractFromMicrodata ==
    /\ fnOut = Pending
    /\ fnOut' = extractFromMicrodata(fnIn)
    /\ UNCHANGED <<fnIn, serverVars, clientVars, appVars>>

SpecMicrodata == InitMicrodata /\ [][CallExtractFromMicrodata]_vars

(***************************************************************************)
(* extractFromCommonSelectors applied to one document                      *)
(***************************************************************************)
MaxEls == 3         \* elements of a document

ElPool ==
    {El("h1", <<cRecipeTitle>>, {}, <<>>),
     El("h1", <<cRecipeTitle>>, {}, <<"C", "a", "k", "e">>),
     El("h2", <<cEntryTitle>>, {}, <<" ", "P", "i", "e", " ">>),
     El("h1", <<>>, {cRecipeHeader}, <<"H">>),
     El("h1", <<<<"m", "y", "-", "r", "e", "c", "i", "p", "e", "-", "n", "a", "m", "e">>>>, {}, <<"N", "m">>),
     El("span", <<cRecipeIngredient>>, {}, <<>>),
     El("li", <<cIngredient>>, {}, <<"s", "a", "l", "t">>),
     El("li", <<cIngredient>>, {}, <<" ">>),
     El("li", <<>>, {cRecipeIngredients}, <<"m", "i", "l", "k">>),
     El("li", <<>>, {cIngredients}, <<" ", "t", "e", "a">>),
     El("p", <<cInstruction>>, {}, <<"C", "h", "o", "p">>),
     El("li", <<>>, {cDirections}, <<"S", "t", "i", "r">>)}

InitSelectors ==
    /\ fnIn \in {[scripts |-> <<>>, items |-> <<>>, els |-> x] :
                    x \in SeqsUpTo(ElPool, MaxEls)}
    /\ fnOut = Pending
    /\ ServerIdle
    /\ ClientIdle
    /\ AppIdle

\* One call of extractFromCommonSelectors: its locals title, ingredients
\* and instructions, and the value it returns
CallExtractFromCommonSelectors ==
    /\ fnOut = Pending
    /\ fnOut' = [k |-> "returned",
                 title |-> findTextBySelectors(fnIn, titleSelectors),
                 ingredients |-> findMultipleTextBySelectors(fnIn, ingredientSelectors),
                 instructions |-> findMultipleTextBySelectors(fnIn, instructionSelectors),
                 result |-> extractFromCommonSelectors(fnIn)]
    /\ UNCHANGED <<fnIn, serverVars, clientVars, appVars>>

SpecSelectors == InitSelectors /\ [][CallExtractFromCommonSelectors]_vars

(***************************************************************************)
(* Several calls of extractRecipeFromUrl in flight at once.  Each call     *)
(* suspends once, at await axios.get; what follows the await runs to the   *)
(* return or the throw without another suspension.  calls[c] holds the     *)
(* parameter and the locals of call c.                                     *)
(***************************************************************************)
MaxCalls == 2       \* calls in flight at once

\* extractFromJsonLd($) from block i on: the loop of JsonLdIteration
RECURSIVE extractFromJsonLd(_, _)
extractFromJsonLd(d, i) ==
    IF i > Len(d.scripts) THEN Null
    ELSE LET it == JsonLdIteration(d, i) IN
         IF it.next = "return" THEN it.recipe ELSE extractFromJsonLd(d, i + 1)

Returned(r) == [ok |-> TRUE, recipe |-> r, error |-> NoError]
Threw(e) == [ok |-> FALSE, recipe |-> Null, error |-> e]

\* The three if (r && r.title) return {...} tests and the final throw
FirstTitled(u, jsonLd, microdata, css) ==
    IF Titled(jsonLd) THEN Returned(Scraped(jsonLd, u))
    ELSE IF Titled(microdata) THEN Returned(Scraped(microdata, u))
    ELSE IF Titled(css) THEN Returned(Scraped(css, u))
    ELSE Threw(extractCatch(Error("Error", "", 0, "No recipe data found on this page")))

\* extractRecipeFromUrl(url) for what axios.get gave: the settled promise
extractRecipeFromUrl(u, fetched) ==
    IF fetched.failed THEN Threw(extractCatch(fetched.error))
    ELSE FirstTitled(u, extractFromJsonLd(fetched.doc, 1),
                     extractFromMicrodata(fetched.doc),
                     extractFromCommonSelectors(fetched.doc))

CallIds == 1..MaxCalls
CallUrls == {u \in Urls : isValidUrl(u)}
\* Pages: one with a recipe in its structured data, and the pages without
\* structured data that carry microdata items or plain elements
CallDocs ==
    {[scripts |-> <<JsonBlock(RecipeA)>>, items |-> <<>>, els |-> <<>>]}
    \cup {[scripts |-> <<>>, items |-> x, els |-> <<>>] : x \in ItemLists}
    \cup {[scripts |-> <<>>, items |-> <<>>, els |-> x] : x \in ElLists}
Fetched ==
    {[failed |-> TRUE, error |-> e, doc |-> NoDoc] : e \in FetchErrors}
    \cup {[failed |-> FALSE, error |-> NoError, doc |-> d] : d \in CallDocs}
NotFetched == [failed |-> FALSE, error |-> NoError, doc |-> NoDoc]
NotCalled ==
    [pc |-> "idle", url |-> <<>>, fetched |-> NotFetched, overlapped |-> {},
     outcome |-> Threw(NoError)]

\* Variant: the url is kept in one place for all calls, the first call's
CallUrlShared(c) == calls[1].url

\* The url parameter of call c, as the code after the await reads it
CallUrl(c) == calls[c].url

\* The call is made and suspends at await axios.get(url, ...)
CallStart(c) ==
    /\ calls[c].pc = "idle"
    /\ \E u \in CallUrls :
          calls' = [calls EXCEPT ![c] = [@ EXCEPT !.pc = "fetching", !.url = u]]
    /\ UNCHANGED <<baseVars, nonCallVars>>

\* axios.get settles and the rest of the body runs; overlapped records the
\* calls suspended at that moment
CallResume(c) ==
    /\ calls[c].pc = "fetching"
    /\ \E f \in Fetched :
          calls' = [calls EXCEPT ![c] =
                       [pc |-> "done", url |-> calls[c].url, fetched |-> f,
                        overlapped |-> {o \in CallIds \ {c} : calls[o].pc = "fetching"},
                        outcome |-> extractRecipeFromUrl(CallUrl(c), f)]]
    /\ UNCHANGED <<baseVars, nonCallVars>>

InitCalls ==
    /\ calls = [c \in CallIds |-> NotCalled]
    /\ ServerIdle
    /\ Idle
    /\ ClientIdle
    /\ ProviderIdle
    /\ StoreIdle
    /\ ReportsIdle

NextCalls == \E c \in CallIds : CallStart(c) \/ CallResume(c)

SpecCalls == InitCalls /\ [][NextCalls]_vars

(***************************************************************************)
(* ImportProvider: the activeImports state and the importRecipe calls.     *)
(* A job is [id, status, error, result]: error "" is an absent error       *)
(* field, otherwise its code; result tells whether the result field is     *)
(* set.  From the call to the first await importRecipe runs without        *)
(* another callback in between.                                            *)
(***************************************************************************)
MaxImports == 2             \* importRecipe calls made
ProviderMaxRetries == 3     \* maxRetries: 3

ImportIds == 1..MaxImports
NotImporting == [pc |-> "idle", jobId |-> 0, attempt |-> 0]

\* The id is import_<Date.now()>_<counter>; the counter part alone tells
\* two ids of one provider apart and stands for the id
generateJobId == jobIdCounter + 1

\* Variant: the updates are applied to every job of the list
updateImportJobAll(prev, jobId, updates) ==
    [i \in 1..Len(prev) |->
        [f \in DOMAIN prev[i] |->
            IF f \in DOMAIN updates THEN updates[f] ELSE prev[i][f]]]

\* prev.map(job => job.id === jobId ? { ...job, ...updates } : job)
updateImportJob(prev, jobId, updates) ==
    [i \in 1..Len(prev) |->
        IF prev[i].id = jobId
        THEN [f \in DOMAIN prev[i] |->
                 IF f \in DOMAIN updates THEN updates[f] ELSE prev[i][f]]
        ELSE prev[i]]

\* Errors importFromUrl may return in result.error
ProviderFailures ==
    { Thrown("invalid-argument", <<"No recipe data found", " on this page">>, TRUE),
      Thrown("deadline-exceeded", <<"Request timed out">>, TRUE) }

\* Some importRecipe call is between its call and its first await
Synchronous == \E k \in DOMAIN imports : imports[k].pc = "created"

\* importRecipe(url) up to setActiveImports(prev => [...prev, newJob])
ImportRecipeCall(k) ==
    /\ imports[k].pc = "idle"
    /\ ~Synchronous
    /\ IF ~user
       THEN /\ imports' = [imports EXCEPT ![k].pc = "rejected"]
            /\ UNCHANGED <<activeImports, jobIdCounter>>
       ELSE /\ jobIdCounter' = jobIdCounter + 1
            /\ activeImports' = Append(activeImports,
                  [id |-> generateJobId, status |-> "validating",
                   error |-> "", result |-> FALSE])
            /\ imports' = [imports EXCEPT ![k] =
                  [pc |-> "created", jobId |-> generateJobId, attempt |-> 0]]
    /\ UNCHANGED <<user, baseVars, nonProviderVars>>

\* updateImportJob(jobId, {status: FETCHING, ...}) and the call of
\* importFromUrl, which suspends importRecipe
ImportRecipeFetching(k) ==
    /\ imports[k].pc = "created"
    /\ activeImports' = updateImportJob(activeImports, imports[k].jobId,
                                        [status |-> "fetching"])
    /\ imports' = [imports EXCEPT ![k].pc = "importing", ![k].attempt = 1]
    /\ UNCHANGED <<user, jobIdCounter, baseVars, nonProviderVars>>

\* importFromUrl calls onRetry before it waits for the next attempt
ImportRecipeOnRetry(k) ==
    /\ imports[k].pc = "importing"
    /\ ~Synchronous
    /\ imports[k].attempt < ProviderMaxRetries
    /\ activeImports' = updateImportJob(activeImports, imports[k].jobId,
                                        [error |-> "RETRY"])
    /\ imports' = [imports EXCEPT ![k].attempt = @ + 1]
    /\ UNCHANGED <<user, jobIdCounter, baseVars, nonProviderVars>>

\* importFromUrl resolves with success false: a non-retryable error, or a
\* retryable one at the last attempt
ImportRecipeFailed(k) ==
    /\ imports[k].pc = "importing"
    /\ ~Synchronous
    /\ \E e \in ProviderFailures :
          /\ parseError(e).canRetry => imports[k].attempt = ProviderMaxRetries
          /\ activeImports' = updateImportJob(activeImports, imports[k].jobId,
                                 [status |-> "error", error |-> parseError(e).code])
    /\ imports' = [imports EXCEPT ![k].pc = "resolved"]
    /\ UNCHANGED <<user, jobIdCounter, baseVars, nonProviderVars>>

\* importFromUrl resolves with a recipe; recipeService.addRecipe is awaited
ImportRecipeImported(k) ==
    /\ imports[k].pc = "importing"
    /\ ~Synchronous
    /\ imports' = [imports EXCEPT ![k].pc = "saving"]
    /\ UNCHANGED <<user, activeImports, jobIdCounter, baseVars, nonProviderVars>>

\* addRecipe resolves: the job is completed with the saved recipe
ImportRecipeSaved(k) ==
    /\ imports[k].pc = "saving"
    /\ ~Synchronous
    /\ activeImports' = updateImportJob(activeImports, imports[k].jobId,
                                        [status |-> "complete", result |-> TRUE])
    /\ imports' = [imports EXCEPT ![k].pc = "resolved"]
    /\ UNCHANGED <<user, jobIdCounter, baseVars, nonProviderVars>>

\* addRecipe rejects: catch (saveError)
ImportRecipeSaveFailed(k) ==
    /\ imports[k].pc = "saving"
    /\ ~Synchronous
    /\ activeImports' = updateImportJob(activeImports, imports[k].jobId,
                                        [status |-> "error", error |-> "SAVE_FAILED"])
    /\ imports' = [imports EXCEPT ![k].pc = "resolved"]
    /\ UNCHANGED <<user, jobIdCounter, baseVars, nonProviderVars>>

\* prev.filter(job => job.status !== COMPLETE && job.status !== ERROR)
clearCompletedImports ==
    /\ ~Synchronous
    /\ activeImports' = SelectSeq(activeImports,
                            LAMBDA job : job.status # "complete" /\ job.status # "error")
    /\ UNCHANGED <<user, jobIdCounter, imports, baseVars, nonProviderVars>>

InitProvider ==
    /\ user \in BOOLEAN
    /\ activeImports = <<>>
    /\ jobIdCounter = 0
    /\ imports = [k \in ImportIds |-> NotImporting]
    /\ calls = <<>>
    /\ StoreIdle
    /\ ReportsIdle
    /\ ServerIdle
    /\ Idle
    /\ ClientIdle

ImportRecipe(k) ==
    \/ ImportRecipeCall(k) \/ ImportRecipeFetching(k) \/ ImportRecipeOnRetry(k)
    \/ ImportRecipeFailed(k) \/ ImportRecipeImported(k)
    \/ ImportRecipeSaved(k) \/ ImportRecipeSaveFailed(k)

NextProvider == clearCompletedImports \/ \E k \in ImportIds : ImportRecipe(k)

SpecProvider == InitProvider /\ [][NextProvider]_vars

\* The awaited promises settle and their continuations are run
FairProvider ==
    \A k \in ImportIds :
        /\ WF_vars(ImportRecipeFetching(k))
        /\ WF_vars(ImportRecipeOnRetry(k) \/ ImportRecipeFailed(k) \/ ImportRecipeImported(k))
        /\ WF_vars(ImportRecipeSaved(k) \/ ImportRecipeSaveFailed(k))

SpecProviderFair == SpecProvider /\ FairProvider

(***************************************************************************)
(* kidRecipeManagerService: convertAndSaveRecipe and reconvertRecipe on    *)
(* the kidRecipes collection.  A document is [pair, isActive], pair being  *)
(* (originalRecipeId, kidId); its id is its position in kidRecipes.  Each  *)
(* await of a Firestore operation is a step; the awaits on the cache and   *)
(* on the conversion, which do not touch kidRecipes, belong to the step    *)
(* that ends with addDoc.                                                  *)
(***************************************************************************)
MaxOps == 2         \* service calls made

OpIds == 1..MaxOps
Pairs == {<<"r1", "k1">>, <<"r1", "k2">>}
NoOp == [kind |-> "", pair |-> <<>>, pc |-> "idle", existing |-> 0, ret |-> 0]

\* The ids the query of getKidRecipeByOriginal matches
ActiveDocs(pair) ==
    {i \in 1..Len(kidRecipes) : kidRecipes[i].pair = pair /\ kidRecipes[i].isActive}

\* getKidRecipeByOriginal: docs[0] of the snapshot, or null (0) when the
\* snapshot is empty or when getDocs rejects and the catch returns null
getKidRecipeByOriginal(pair) ==
    {0} \cup (IF ActiveDocs(pair) = {} THEN {}
              ELSE {CHOOSE i \in ActiveDocs(pair) : \A j \in ActiveDocs(pair) : i <= j})

\* A call is made: both methods start by awaiting getKidRecipeByOriginal
OpCall(p) ==
    /\ ops[p].pc = "idle"
    /\ \E kind \in {"convert", "reconvert"}, pair \in Pairs :
          ops' = [ops EXCEPT ![p] =
                     [NoOp EXCEPT !.kind = kind, !.pair = pair,
                                  !.pc = IF kind = "convert" THEN "check" ELSE "find"]]
    /\ UNCHANGED <<kidRecipes, baseVars, nonStoreVars>>

\* reconvertRecipe: the query answers
ReconvertFound(p) ==
    /\ ops[p].pc = "find"
    /\ \E e \in getKidRecipeByOriginal(ops[p].pair) :
          ops' = [ops EXCEPT ![p].existing = e,
                             ![p].pc = IF e # 0 THEN "deactivate" ELSE "check"]
    /\ UNCHANGED <<kidRecipes, baseVars, nonStoreVars>>

\* reconvertRecipe: updateDoc(existing, {isActive: false}), then the call
\* of convertAndSaveRecipe
ReconvertDeactivate(p) ==
    /\ ops[p].pc = "deactivate"
    /\ kidRecipes' = [kidRecipes EXCEPT ![ops[p].existing].isActive = FALSE]
    /\ ops' = [ops EXCEPT ![p].pc = "check"]
    /\ UNCHANGED <<baseVars, nonStoreVars>>

\* convertAndSaveRecipe: the query answers; an existing document's id is
\* returned
ConvertChecked(p) ==
    /\ ops[p].pc = "check"
    /\ \E e \in getKidRecipeByOriginal(ops[p].pair) :
          ops' = [ops EXCEPT ![p].existing = e,
                             ![p].pc = IF e # 0 THEN "done" ELSE "convert",
                             ![p].ret = e]
    /\ UNCHANGED <<kidRecipes, baseVars, nonStoreVars>>

\* convertAndSaveRecipe: the conversion is there and addDoc stores the new
\* active document, whose id is returned
ConvertSaved(p) ==
    /\ ops[p].pc = "convert"
    /\ kidRecipes' = Append(kidRecipes, [pair |-> ops[p].pair, isActive |-> TRUE])
    /\ ops' = [ops EXCEPT ![p].pc = "done", ![p].ret = Len(kidRecipes) + 1]
    /\ UNCHANGED <<baseVars, nonStoreVars>>

InitStore ==
    /\ kidRecipes = <<>>
    /\ ops = [p \in OpIds |-> NoOp]
    /\ calls = <<>>
    /\ ProviderIdle
    /\ ReportsIdle
    /\ ServerIdle
    /\ Idle
    /\ ClientIdle

NextStore ==
    \E p \in OpIds :
        \/ OpCall(p) \/ ReconvertFound(p) \/ ReconvertDeactivate(p)
        \/ ConvertChecked(p) \/ ConvertSaved(p)

SpecStore == InitStore /\ [][NextStore]_vars

(***************************************************************************)
(* ErrorReportingService: the queue of pending error reports.              *)
(* this.pendingReports refers to an array object: push changes that        *)
(* object, filter makes a new one, and a for...of loop keeps reading the   *)
(* object it was started on, up to that object's current length.           *)
(***************************************************************************)
MaxReports == 2     \* reportError calls made
MaxSenders == 2     \* sendPendingReports calls made

SenderIds == 1..MaxSenders
NotSending == [pc |-> "idle", arr |-> 0, idx |-> 0]

\* sendPendingReports up to its first await: nothing to do for an empty
\* queue, otherwise the loop starts on the current array
sendPendingReports(s, arrs) ==
    IF Len(arrs[pendingReports]) = 0
    THEN [senders EXCEPT ![s].pc = "done"]
    ELSE [senders EXCEPT ![s] = [pc |-> "sending", arr |-> pendingReports, idx |-> 1]]

\* The loop moves to the next element of the array it reads, or ends
NextReport(s, arrs) ==
    IF senders[s].idx + 1 <= Len(arrs[senders[s].arr])
    THEN [senders EXCEPT ![s].idx = @ + 1]
    ELSE [senders EXCEPT ![s].pc = "done"]

\* reportError: the report is pushed and, online, sendPendingReports is
\* entered
ReportError ==
    /\ reported < MaxReports
    /\ reported' = reported + 1
    /\ delivered' = Append(delivered, 0)
    /\ arrays' = [arrays EXCEPT ![pendingReports] = Append(@, reported + 1)]
    /\ IF isOnline
       THEN \E s \in SenderIds :
               /\ senders[s].pc = "idle"
               /\ senders' = sendPendingReports(s,
                     [arrays EXCEPT ![pendingReports] = Append(@, reported + 1)])
       ELSE senders' = senders
    /\ UNCHANGED <<pendingReports, isOnline, baseVars, nonReportVars>>

\* flush()
Flush ==
    /\ \E s \in SenderIds :
          /\ senders[s].pc = "idle"
          /\ senders' = sendPendingReports(s, arrays)
    /\ arrays' = arrays
    /\ UNCHANGED <<pendingReports, isOnline, reported, delivered, baseVars,
                   nonReportVars>>

\* setOnlineStatus(online)
SetOnlineStatus(online) ==
    /\ isOnline' = online
    /\ arrays' = arrays
    /\ IF ~isOnline /\ online
       THEN \E s \in SenderIds :
               /\ senders[s].pc = "idle"
               /\ senders' = sendPendingReports(s, arrays)
       ELSE senders' = senders
    /\ UNCHANGED <<pendingReports, reported, delivered, baseVars, nonReportVars>>

\* The backend call of a loop resolves: the report is filtered out of
\* this.pendingReports, which becomes a new array
SendResolved(s) ==
    /\ senders[s].pc = "sending"
    /\ LET report == arrays[senders[s].arr][senders[s].idx] IN
       /\ delivered' = [delivered EXCEPT ![report] = @ + 1]
       /\ arrays' = Append(arrays, SelectSeq(arrays[pendingReports],
                                             LAMBDA r : r # report))
       /\ pendingReports' = Len(arrays) + 1
       /\ senders' = NextReport(s, arrays)
    /\ UNCHANGED <<isOnline, reported, baseVars, nonReportVars>>

\* The backend call of a loop rejects: catch (sendError), the report stays
SendRejected(s) ==
    /\ senders[s].pc = "sending"
    /\ senders' = NextReport(s, arrays)
    /\ UNCHANGED <<arrays, pendingReports, isOnline, reported, delivered,
                   baseVars, nonReportVars>>

InitReports ==
    /\ arrays = << <<>> >>
    /\ pendingReports = 1
    /\ isOnline = TRUE
    /\ senders = [s \in SenderIds |-> NotSending]
    /\ reported = 0
    /\ delivered = <<>>
    /\ calls = <<>>
    /\ ProviderIdle
    /\ StoreIdle
    /\ ServerIdle
    /\ Idle
    /\ ClientIdle

NextReports ==
    \/ ReportError \/ Flush
    \/ \E online \in BOOLEAN : SetOnlineStatus(online)
    \/ \E s \in SenderIds : SendResolved(s) \/ SendRejected(s)

SpecReports == InitReports /\ [][NextReports]_vars

(***************************************************************************)
(* Claims                                                                  *)
(***************************************************************************)
StrategyOrder == <<"jsonld", "microdata", "selector">>
NoRecipeMessage == "No recipe data found on this page"

\* The request got a document and has left extractRecipeFromUrl
Extracted == pc = "responded" /\ fetchCalls > 0 /\ fetchError = NoError

\* C1: every recipe returned as a success has a non-empty title and at
\* least one of ingredients / instructions non-empty.
C1_SuccessHasContent ==
    response.ok =>
        /\ Truthy(response.recipe.title)
        /\ \/ Len(response.recipe.ingredients.v) > 0
           \/ Len(response.recipe.instructions.v) > 0

\* The extractor result the orchestrator accepted: that of the strategy
\* invoked last.
C2_Winner ==
    IF Len(tried) = 1 THEN jsonLdRecipe
    ELSE IF Len(tried) = 2 THEN microdataRecipe
    ELSE cssRecipe

C2_LacksTitle(r) == r.k = "null" \/ ~Truthy(r.title)

\* C2: the strategies run in the order structured data, microdata,
\* selector; a later one runs only if every earlier one returned null or an
\* untitled result; the recipe returned takes every extracted field from
\* the one strategy that produced the title; with both structured data and
\* microdata titled, the structured-data title is returned.
C2_PriorityOrder ==
    /\ Len(tried) <= 3
    /\ \A i \in 1..Len(tried) : tried[i] = StrategyOrder[i]
    /\ Len(tried) >= 2 => C2_LacksTitle(jsonLdRecipe)
    /\ Len(tried) >= 3 => C2_LacksTitle(microdataRecipe)
    /\ response.ok =>
          LET w == C2_Winner
              r == response.recipe
          IN /\ w.k = "rec" /\ Truthy(w.title)
             /\ r.title = w.title /\ r.description = w.description
             /\ r.image = w.image /\ r.prepTime = w.prepTime
             /\ r.cookTime = w.cookTime /\ r.totalTime = w.totalTime
             /\ r.servings = w.servings /\ r.difficulty = w.difficulty
             /\ r.ingredients = w.ingredients
             /\ r.instructions = w.instructions
             /\ r.tags = w.tags
             /\ r.sourceUrl = url
    /\ (Extracted /\ jsonLdRecipe.k = "rec" /\ Truthy(jsonLdRecipe.title)) =>
          /\ response.ok
          /\ response.recipe.title = jsonLdRecipe.title
          /\ tried = <<"jsonld">>

\* C2 witness: a document with a titled structured-data recipe and a
\* differently titled microdata recipe has been answered.
C2_Witness ==
    /\ Extracted /\ response.ok
    /\ jsonLdRecipe.k = "rec"
    /\ extractFromMicrodata(doc).k = "rec"
    /\ extractFromMicrodata(doc).title # jsonLdRecipe.title
    /\ response.recipe.title = jsonLdRecipe.title

\* C3: when all three strategies returned null the request fails with the
\* "No recipe data found" error and no recipe; that error is raised only
\* after all three strategies were tried.
C3_NoRecipeFailure ==
    /\ (Extracted /\ tried = StrategyOrder /\ jsonLdRecipe.k = "null"
        /\ microdataRecipe.k = "null" /\ cssRecipe.k = "null") =>
          /\ thrown.name = "Error" /\ thrown.message = NoRecipeMessage
          /\ ~response.ok
          /\ response.recipe.k = "null"
          /\ response.error.message = NoRecipeMessage
    /\ (thrown.message = NoRecipeMessage \/ response.error.message = NoRecipeMessage) =>
          tried = StrategyOrder

\* C3 witness: a request whose three strategies all returned null failed.
C3_Witness ==
    /\ Extracted /\ tried = StrategyOrder
    /\ jsonLdRecipe.k = "null" /\ microdataRecipe.k = "null" /\ cssRecipe.k = "null"
    /\ doc.scripts # <<>>
    /\ thrown.message = NoRecipeMessage

\* C4 as stated: a failed fetch runs no strategy and its error reaches the
\* caller of extractRecipeFromUrl unchanged.
C4_FetchErrorUnchanged ==
    fetchError # NoError => (tried = <<>> /\ thrown = fetchError)

\* C4 amended: a failed fetch runs no strategy; an ENOTFOUND, a 404 and an
\* ECONNABORTED error are replaced by a new Error with a fixed message, any
\* other fetch error reaches the caller unchanged.
C4_FetchErrorTranslated ==
    fetchError # NoError =>
        /\ tried = <<>> /\ examined = <<>> /\ doc = NoDoc
        /\ fetchError.code = "ENOTFOUND" =>
              thrown = [name |-> "Error", code |-> "", status |-> 0,
                        message |-> "Website not found"]
        /\ (fetchError.code # "ENOTFOUND" /\ fetchError.status = 404) =>
              thrown = [name |-> "Error", code |-> "", status |-> 0,
                        message |-> "Recipe page not found"]
        /\ (fetchError.status # 404 /\ fetchError.code = "ECONNABORTED") =>
              thrown = [name |-> "Error", code |-> "", status |-> 0,
                        message |-> "Request timed out"]
        /\ (fetchError.code \notin {"ENOTFOUND", "ECONNABORTED"}
            /\ fetchError.status # 404) => thrown = fetchError

\* C4 witness: a fetch error other than the three translated ones reached
\* the caller.
C4_Witness ==
    /\ fetchError = Err500 /\ thrown = Err500 /\ pc = "responded"

C5_Kinds ==
    {"invalid-url", "host-unreachable", "page-not-found", "timeout", "no-recipe-found"}

\* C5: at the scrapeRecipeV2 boundary the codes delivered for no recipe
\* found, host unreachable, page not found, timeout and invalid URL are
\* pairwise distinct: two failed requests of different kinds never carry
\* the same code.
C5_DistinctCodes ==
    (pc = "responded" /\ ~response.ok
     /\ FailureKind \in C5_Kinds /\ lastFailure.kind \in C5_Kinds
     /\ FailureKind # lastFailure.kind) =>
        response.error.code # lastFailure.code

\* The well-formed http(s) URLs among the requests
C6_HttpUrls ==
    { <<"http:", "//", "example.com", "/cake">>,
      <<"HTTPS:", "//", "example.com", "/cake">> }

\* C6: a malformed or non-http(s) URL is rejected before any network call:
\* scrapeRecipeV2 fails with invalid-argument and never calls the fetcher;
\* importFromUrl returns INVALID_URL, canRetry false, after no fetch and no
\* retry.
C6_InvalidUrlRejected ==
    /\ fetchCalls > 0 => url \in C6_HttpUrls
    /\ (pc = "responded" /\ url \notin C6_HttpUrls) =>
          /\ ~response.ok
          /\ response.error.name = "HttpsError"
          /\ response.error.code = "invalid-argument"
          /\ fetchCalls = 0 /\ fetchError = NoError /\ tried = <<>>
    /\ (fetchAttempts > 0 \/ attempt > 0 \/ retries # <<>> \/ delays # <<>>) =>
          iurl \in C6_HttpUrls
    /\ (ipc = "returned" /\ iurl \notin C6_HttpUrls) =>
          /\ ~iresult.success
          /\ iresult.code = "INVALID_URL"
          /\ ~iresult.canRetry
          /\ fetchAttempts = 0 /\ retries = <<>> /\ delays = <<>>
          /\ progress = <<"validating">>

\* C6 witness: an ftp URL was refused by the function and a URL without a
\* scheme by the client.
C6_Witness ==
    /\ pc = "responded" /\ url = <<"ftp:", "//", "example.com", "/cake">>
    /\ response.error.code = "invalid-argument" /\ fetchCalls = 0
    /\ ipc = "returned" /\ iurl = <<"example.com", "/cake">>
    /\ iresult.code = "INVALID_URL" /\ fetchAttempts = 0

\* extractFromJsonLd has returned to the orchestrator
JsonLdReturned ==
    pc \in {"jsonldReturned", "microdataReturned", "cssReturned"} \/ Extracted

C7_Unparsable(b) == b.kind \in {"malformed", "empty"}

\* C7: a script block that is empty or no JSON is skipped: nothing is
\* raised, the scan moves on to the next block, and it ends only at a block
\* holding a recipe or after the last block; without a match the extractor
\* returns null and the orchestrator goes on to microdata.
C7_MalformedBlockSkipped ==
    /\ pc \in {"jsonld", "jsonldReturned"} => (thrown = NoError /\ ~response.sent)
    /\ \A n \in 1..Len(examined) : examined[n] = n
    /\ \A n \in 1..Len(examined) :
          C7_Unparsable(doc.scripts[n]) => scriptIdx > n
    /\ JsonLdReturned =>
          IF jsonLdRecipe.k = "null"
          THEN Len(examined) = Len(doc.scripts)
          ELSE /\ jsonLdRecipe.k = "rec"
               /\ examined # <<>>
               /\ doc.scripts[Len(examined)].kind = "json"
    /\ (JsonLdReturned /\ pc # "jsonldReturned" /\ jsonLdRecipe.k = "null") =>
          (Len(tried) >= 2 /\ tried[2] = "microdata")

\* C7 witness: a malformed first block was passed and the second block's
\* recipe was returned.
C7_Witness ==
    /\ Extracted
    /\ doc.scripts = <<MalformedBlock, JsonBlock(RecipeB)>>
    /\ examined = <<1, 2>>
    /\ jsonLdRecipe.k = "rec" /\ jsonLdRecipe.title = Get(RecipeB, "name")

\* The Recipe-typed objects of a JSON value, in depth-first, left-to-right
\* order through list elements and @graph wrappers
RECURSIVE C9_Recipes(_)
C9_Recipes(val) ==
    IF val.k = "arr"
    THEN LET RECURSIVE Cat(_)
             Cat(i) == IF i > Len(val.v) THEN <<>>
                       ELSE C9_Recipes(val.v[i]) \o Cat(i + 1)
         IN Cat(1)
    ELSE IF val.k = "obj"
    THEN IF "@type" \in DOMAIN val.v /\ val.v["@type"].k = "str"
            /\ val.v["@type"].v = <<"R", "e", "c", "i", "p", "e">>
         THEN <<val>>
         ELSE IF "@graph" \in DOMAIN val.v THEN C9_Recipes(val.v["@graph"])
         ELSE <<>>
    ELSE <<>>

C8_RecipeBlocks ==
    {i \in 1..Len(doc.scripts) :
        doc.scripts[i].kind = "json" /\ C9_Recipes(doc.scripts[i].val) # <<>>}

\* C8: the structured-data result is the mapping of the recipe record of
\* the first block, in document order, that contains a Recipe-typed record;
\* earlier blocks are skipped and no later block is consulted.
C8_FirstRecipeBlockWins ==
    JsonLdReturned =>
        IF C8_RecipeBlocks = {}
        THEN jsonLdRecipe.k = "null" /\ Len(examined) = Len(doc.scripts)
        ELSE LET first == CHOOSE i \in C8_RecipeBlocks :
                              \A j \in C8_RecipeBlocks : i <= j
             IN /\ Len(examined) = first
                /\ jsonLdRecipe = parseJsonLdRecipe(C9_Recipes(doc.scripts[first].val)[1])

\* C9: findRecipeInJsonLd returns the mapping of the first Recipe-typed
\* object in depth-first, left-to-right order, and null exactly when the
\* value holds none; null, scalars and untyped objects earlier in a list do
\* not hide a later recipe.
C9_FindsFirstRecipe ==
    fnOut.k # "pending" =>
        IF C9_Recipes(fnIn) = <<>>
        THEN fnOut.k = "null"
        ELSE fnOut = parseJsonLdRecipe(C9_Recipes(fnIn)[1])

\* C10: every extractor returns a field set or null and raises nothing; the
\* only error a request with a document can end with is the orchestrator's
\* "No recipe data found".
C10_ExtractorsTotal ==
    /\ jsonLdRecipe.k \in {"null", "rec"}
    /\ microdataRecipe.k \in {"null", "rec"}
    /\ cssRecipe.k \in {"null", "rec"}
    /\ pc \in {"jsonld", "jsonldReturned", "microdataReturned", "cssReturned"} =>
          (thrown = NoError /\ ~response.sent)
    /\ (fetchError = NoError /\ thrown # NoError) =>
          /\ thrown.message = NoRecipeMessage
          /\ tried = StrategyOrder
          /\ ~Titled(jsonLdRecipe) /\ ~Titled(microdataRecipe) /\ ~Titled(cssRecipe)

\* C10 witness: a block whose search raises a TypeError was scanned, every
\* extractor returned null and the request ended with the orchestrator's
\* error.
C10_Witness ==
    /\ Extracted
    /\ doc.scripts = <<JsonBlock(Arr(<<Null, RecipeA>>))>>
    /\ examined = <<1>>
    /\ jsonLdRecipe.k = "null" /\ microdataRecipe.k = "null" /\ cssRecipe.k = "null"
    /\ thrown.message = NoRecipeMessage

\* s is a non-empty run of digits followed by the unit letter
C11_Part(s, unit) ==
    Len(s) >= 2 /\ s[Len(s)] = unit /\ \A i \in 1..(Len(s) - 1) : s[i] \in Digits

\* The splits of d as "PT", an optional hours part, an optional minutes part
C11_Splits(d) ==
    {<<i, j>> \in (2..Len(d)) \X (2..Len(d)) :
        /\ Len(d) >= 2 /\ d[1] = "P" /\ d[2] = "T"
        /\ i <= j /\ j = Len(d)
        /\ (i > 2 => C11_Part(SubSeq(d, 3, i), "H"))
        /\ (j > i => C11_Part(SubSeq(d, i + 1, j), "M"))
        /\ j > 2}

\* What the stated conversion gives for the duration string d
C11_Expected(d) ==
    IF C11_Splits(d) = {} THEN d
    ELSE LET sp == CHOOSE x \in C11_Splits(d) : TRUE
             h == IF sp[1] > 2 THEN IntToDigits(DigitsToInt(SubSeq(d, 3, sp[1] - 1))) ELSE <<>>
             m == IF sp[2] > sp[1]
                  THEN IntToDigits(DigitsToInt(SubSeq(d, sp[1] + 1, sp[2] - 1))) ELSE <<>>
         IN IF h # <<>> /\ m # <<>> THEN h \o <<"h", " ">> \o m \o <<"m", "i", "n">>
            ELSE IF h # <<>> THEN h \o <<"h">>
            ELSE m \o <<"m", "i", "n">>

\* C11: a duration string PT{h}H{m}M becomes "{h}h {m}min", PT{h}H becomes
\* "{h}h", PT{m}M becomes "{m}min", and every other string is returned
\* unchanged.
C11_DurationConversion ==
    (fnOut.k = "rec" /\ "prepTime" \in DOMAIN fnIn.v) =>
        fnOut.prepTime = Str(C11_Expected(fnIn.v["prepTime"].v))

\* The instruction s without surrounding white space and without a leading
\* ordinal (digits, a period, white space)
C12_Expected(s) ==
    LET t == trim(s)
        d == LeadingDigits(t)
    IN IF d >= 1 /\ Len(t) >= d + 2 /\ t[d + 1] = "." /\ t[d + 2] \in Whitespace
       THEN trim(SubSeq(t, d + 2, Len(t)))
       ELSE t

\* C12: every output instruction is its input without the leading ordinal
\* (digits, a period, white space) and without surrounding white space,
\* also when white space precedes the ordinal and when digits and a period
\* are not followed by white space.
C12_InstructionCleanup ==
    (fnOut.k = "rec" /\ "recipeInstructions" \in DOMAIN fnIn.v
     /\ fnIn.v["recipeInstructions"].k = "arr"
     /\ Len(fnIn.v["recipeInstructions"].v) = 1
     /\ fnIn.v["recipeInstructions"].v[1].k = "str"
     /\ fnIn.v["recipeInstructions"].v[1].v # <<>>) =>
        fnOut.instructions =
            Arr(<<Str(C12_Expected(fnIn.v["recipeInstructions"].v[1].v))>>)

\* a without the repetitions of an earlier entry
C13_Dedupe(a) ==
    LET keep == {i \in 1..Len(a) : \A j \in 1..(i - 1) : a[j] # a[i]}
        RECURSIVE Pick(_)
        Pick(i) == IF i > Len(a) THEN <<>>
                   ELSE (IF i \in keep THEN <<a[i]>> ELSE <<>>) \o Pick(i + 1)
    IN Pick(1)

\* C13: the tags are the category entries followed by the cuisine entries,
\* each normalized to a list, without duplicates and in the order of first
\* occurrence; no tags list holds the same string twice.
C13_TagsDeduplicated ==
    (fnOut.k = "rec" /\ fnOut.tags.k = "arr") =>
        /\ fnOut.tags.v =
              C13_Dedupe(extractArray(Get(fnIn, "recipeCategory"))
                         \o extractArray(Get(fnIn, "recipeCuisine")))
        /\ \A i, j \in 1..Len(fnOut.tags.v) :
              fnOut.tags.v[i] = fnOut.tags.v[j] => i = j

\* The value handed to extractNumber: recipe.recipeYield || recipe.yield
C14_Argument == OrElse(Get(fnIn, "recipeYield"), Get(fnIn, "yield"))

C14_AllDigits(s) == s # <<>> /\ \A i \in 1..Len(s) : s[i] \in Digits

\* C14 as stated: a number is returned as is, a numeric string as its
\* integer value, and every other value, a non-numeric string included,
\* gives undefined and never zero.
C14_StrictCoercion ==
    fnOut.k = "rec" =>
        LET arg == C14_Argument IN
        IF arg.k = "num" THEN fnOut.servings = arg
        ELSE IF arg.k = "str" /\ C14_AllDigits(arg.v)
        THEN fnOut.servings = Num(DigitsToInt(arg.v))
        ELSE fnOut.servings = Undef

\* The integer a string starts with: after leading white space and an
\* optional sign, the longest run of decimal digits, or of hexadecimal
\* digits after "0x"; <<>> when there is no such run.  The result is
\* <<sign, base, digits>>.
C14_LeadingInteger(s) ==
    LET t == SubSeq(s, LeadingWs(s) + 1, Len(s))
        signed == t # <<>> /\ t[1] \in {"+", "-"}
        u == IF signed THEN Tail(t) ELSE t
        hex == Len(u) >= 2 /\ u[1] = "0" /\ u[2] \in {"x", "X"}
        w == IF hex THEN SubSeq(u, 3, Len(u)) ELSE u
        run == SubSeq(w, 1, LeadingDigits(w))
    IN IF run = <<>> THEN <<>>
       ELSE <<IF signed /\ t[1] = "-" THEN -1 ELSE 1, IF hex THEN 16 ELSE 10, run>>

RECURSIVE C14_Value(_, _)
C14_Value(base, run) ==
    IF run = <<>> THEN 0
    ELSE base * C14_Value(base, SubSeq(run, 1, Len(run) - 1)) + DigitVal(run[Len(run)])

\* C14 amended: a number is returned as is; a string that starts, after
\* white space and an optional sign, with digits gives the integer value of
\* that run of digits, whatever follows it; every other value gives
\* undefined, never zero and never an error.
C14_LooseCoercion ==
    /\ fnOut.k = "rec" =>
        LET arg == C14_Argument IN
        IF arg.k = "num" THEN fnOut.servings = arg
        ELSE IF arg.k = "str" /\ C14_LeadingInteger(arg.v) # <<>>
        THEN LET li == C14_LeadingInteger(arg.v) IN
             fnOut.servings = Num(li[1] * C14_Value(li[2], li[3]))
        ELSE fnOut.servings = Undef
    /\ fnOut.k = "throw" => "recipeInstructions" \in DOMAIN fnIn.v

\* C14 witness: the yield "4 servings" was coerced to 4.
C14_Witness ==
    /\ fnOut.k = "rec"
    /\ Get(fnIn, "recipeYield") = Str(<<"4", " ", "s", "e", "r", "v", "i", "n", "g", "s">>)
    /\ Get(fnIn, "yield") = Undef
    /\ fnOut.servings = Num(4)

\* The text of an entry in one of the three shapes, "" for any other entry
C15_Unwrap(e) ==
    IF e.k = "str" THEN e
    ELSE IF e.k = "obj" /\ "text" \in DOMAIN e.v /\ Truthy(e.v["text"]) THEN e.v["text"]
    ELSE IF e.k = "obj" /\ "@value" \in DOMAIN e.v /\ Truthy(e.v["@value"]) THEN e.v["@value"]
    ELSE Str(<<>>)

\* A field value as a list: the entries of a list, a scalar as its only
\* entry, each unwrapped, the falsy ones left out
C15_Normalize(value) ==
    LET entries == IF value.k = "arr" THEN value.v
                   ELSE IF Truthy(value) THEN <<value>> ELSE <<>>
    IN SelectSeq([i \in 1..Len(entries) |-> C15_Unwrap(entries[i])],
                 LAMBDA x : Truthy(x))

C16_FirstRecord ==
    LET first == CHOOSE i \in C8_RecipeBlocks : \A j \in C8_RecipeBlocks : i <= j
    IN C9_Recipes(doc.scripts[first].val)[1]

\* C16: when the first Recipe-typed record of the document has a non-empty
\* string name, the title extractFromJsonLd returns is that name, character
\* for character, and it is the title of the recipe the request returns.
C16_TitleIsName ==
    (JsonLdReturned /\ C8_RecipeBlocks # {}
     /\ Get(C16_FirstRecord, "name").k = "str"
     /\ Get(C16_FirstRecord, "name").v # <<>>) =>
        /\ jsonLdRecipe.k = "rec"
        /\ jsonLdRecipe.title = Get(C16_FirstRecord, "name")
        /\ Extracted =>
              (response.ok /\ response.recipe.title = Get(C16_FirstRecord, "name"))

\* The value of an itemprop element: its trimmed text, else its content
\* attribute, else ""
C17_Value(p) ==
    IF trim(p.text) # <<>> THEN Str(trim(p.text))
    ELSE IF p.content.k = "str" /\ p.content.v # <<>> THEN p.content
    ELSE Str(<<>>)

\* The items whose itemtype contains the recipe marker
C17_RecipeItems ==
    {i \in 1..Len(fnIn.items) :
        \E j \in 1..Len(fnIn.items[i].itemtype) :
            fnIn.items[i].itemtype[j] = "schema.org/Recipe"}

\* The non-empty values of property prop of the first recipe item, in
\* document order
C17_Values(prop) ==
    LET first == CHOOSE i \in C17_RecipeItems : \A j \in C17_RecipeItems : i <= j
        props == fnIn.items[first].props
        vals == [i \in 1..Len(props) |-> C17_Value(props[i])]
        idx == {i \in 1..Len(props) : props[i].itemprop = prop /\ vals[i].v # <<>>}
        RECURSIVE Pick(_)
        Pick(i) == IF i > Len(props) THEN <<>>
                   ELSE (IF i \in idx THEN <<vals[i]>> ELSE <<>>) \o Pick(i + 1)
    IN Pick(1)

\* C17: extractFromMicrodata returns null without an element whose itemtype
\* contains the recipe marker, and when the first such element has no
\* non-empty name value; a result that is not null has the first non-empty
\* name value as title; a property without matches gives an empty list or
\* an absent value, never an error.
C17_MicrodataMatch ==
    (fnOut.k # "pending" /\ "items" \in DOMAIN fnIn) =>
        /\ fnOut.k \in {"null", "rec"}
        /\ C17_RecipeItems = {} => fnOut.k = "null"
        /\ (C17_RecipeItems # {} /\ C17_Values("name") = <<>>) => fnOut.k = "null"
        /\ fnOut.k = "rec" =>
              /\ C17_RecipeItems # {} /\ C17_Values("name") # <<>>
              /\ fnOut.title = C17_Values("name")[1]
              /\ fnOut.ingredients = Arr(C17_Values("recipeIngredient"))
              /\ fnOut.instructions = Arr(C17_Values("recipeInstructions"))
              /\ C17_Values("description") = <<>> => fnOut.description = Undef
              /\ C17_Values("prepTime") = <<>> => fnOut.prepTime = Undef
              /\ C17_Values("recipeYield") = <<>> => fnOut.servings = Undef
        /\ (C17_RecipeItems # {} /\ C17_Values("name") # <<>>) => fnOut.k = "rec"

\* C17 witness: the first recipe item, after an article, has a name element
\* with blank text and a content attribute before a second name element;
\* the content attribute is the title, and the missing properties are
\* empty or absent.
C17_Witness ==
    /\ fnOut.k = "rec"
    /\ fnIn.items = <<ArticleItem,
                      RecipeItem(<<Prop("name", <<" ">>, Str(<<"M">>), Undef),
                                   Prop("name", <<"N">>, Undef, Undef)>>)>>
    /\ fnOut.title = Str(<<"M">>)
    /\ fnOut.ingredients = Arr(<<>>)
    /\ fnOut.servings = Undef

\* The trimmed non-empty texts of the elements selector sel matches, in
\* document order
C18_Texts(sel) ==
    LET hit(el) == Matches(el, sel) /\ trim(el.text) # <<>>
        RECURSIVE Pick(_)
        Pick(i) == IF i > Len(fnIn.els) THEN <<>>
                   ELSE (IF hit(fnIn.els[i]) THEN <<trim(fnIn.els[i].text)>> ELSE <<>>)
                        \o Pick(i + 1)
    IN Pick(1)

\* The selectors of a list that match an element with non-empty text
C18_Hits(selectors) == {n \in 1..Len(selectors) : C18_Texts(selectors[n]) # <<>>}

C18_FirstHit(selectors) ==
    CHOOSE n \in C18_Hits(selectors) : \A m \in C18_Hits(selectors) : n <= m

\* C18: the title found is the text of the first element with non-empty
\* text, the selectors taken in order and the elements of one selector in
\* document order; an element with empty text is passed over; the title is
\* empty only if no element matched by a title selector has text.
C18_TitleLookup ==
    fnOut.k = "returned" =>
        IF C18_Hits(titleSelectors) = {} THEN fnOut.title = <<>>
        ELSE fnOut.title = C18_Texts(titleSelectors[C18_FirstHit(titleSelectors)])[1]

\* What the list lookup has to give for a list of selectors: the texts of
\* the first selector, in the fixed order, with a non-empty element
C19_Expected(selectors) ==
    IF C18_Hits(selectors) = {} THEN <<>>
    ELSE LET texts == C18_Texts(selectors[C18_FirstHit(selectors)])
         IN [i \in 1..Len(texts) |-> Str(texts[i])]

\* C19: ingredients and instructions are each taken from exactly one
\* selector, the first in the fixed order with at least one non-empty
\* element, and hold the non-empty texts of that selector's elements in
\* document order; nothing of a later selector is added, and a selector
\* whose elements are all empty does not win.
C19_ListLookup ==
    fnOut.k = "returned" =>
        /\ fnOut.ingredients = C19_Expected(ingredientSelectors)
        /\ fnOut.instructions = C19_Expected(instructionSelectors)

\* C19 witness: the first ingredient selector matches an empty element
\* only, the second one element, a later one another element: the result
\* is the one element of the second selector.
C19_Witness ==
    /\ fnOut.k = "returned"
    /\ fnIn.els = <<El("span", <<cRecipeIngredient>>, {}, <<>>),
                    El("li", <<cIngredient>>, {}, <<"s", "a", "l", "t">>),
                    El("li", <<>>, {cIngredients}, <<" ", "t", "e", "a">>)>>
    /\ fnOut.ingredients = <<Str(<<"s", "a", "l", "t">>)>>

\* C20: extractFromCommonSelectors returns null when no title is found and
\* when a title is found but the ingredient and instruction lists are both
\* empty; every result that is not null has a non-empty title and at least
\* one non-empty list.
C20_SelectorResult ==
    fnOut.k = "returned" =>
        /\ fnOut.title = <<>> => fnOut.result = Null
        /\ (fnOut.ingredients = <<>> /\ fnOut.instructions = <<>>) => fnOut.result = Null
        /\ fnOut.result # Null =>
              /\ fnOut.result.k = "rec"
              /\ fnOut.result.title.k = "str" /\ fnOut.result.title.v # <<>>
              /\ fnOut.result.title.v = fnOut.title
              /\ fnOut.result.ingredients = Arr(fnOut.ingredients)
              /\ fnOut.result.instructions = Arr(fnOut.instructions)
              /\ \/ fnOut.result.ingredients.v # <<>>
                 \/ fnOut.result.instructions.v # <<>>

\* C20 witness: a title was found but neither ingredients nor instructions,
\* and the result is null.
C20_Witness ==
    /\ fnOut.k = "returned"
    /\ fnOut.title = <<"C", "a", "k", "e">>
    /\ fnOut.ingredients = <<>> /\ fnOut.instructions = <<>>
    /\ fnOut.result = Null

C22_RetryOnlyRetryable ==
    [][ LET e == lastThrown'
            failed == ipc = "attempt" /\ ~(ipc' = "returned" /\ iresult'.success)
            missing == /\ e.code = "invalid-argument"
                       /\ \/ Includes(e.message, "No recipe data found")
                          \/ Includes(e.message, "Missing instructions")
                          \/ Includes(e.message, "Missing ingredients")
        IN  failed =>
              /\ ipc' # "returned" => parseError(e).canRetry
              /\ e.code = "deadline-exceeded" =>
                    IF attempt < maxRetries
                    THEN /\ ipc' = "delaying"
                         /\ retries' = Append(retries, attempt)
                         /\ delays' = Append(delays, BackoffDelay(attempt))
                    ELSE /\ ipc' = "returned"
                         /\ iresult'.code = "TIMEOUT"
              /\ missing \/ e.code = "not-found" =>
                    /\ ipc' = "returned"
                    /\ ~iresult'.success /\ ~iresult'.canRetry
                    /\ retries' = retries /\ delays' = delays
                    /\ Len(retries) = attempt - 1
                    /\ attempt = 1 => fetchAttempts' = 1
              /\ missing => iresult'.allowManualEdit
      ]_vars

\* A timeout was retried after 1000 ms and the second attempt found no
\* recipe, which ended the import with manual editing allowed
C22_Witness ==
    /\ ipc = "returned"
    /\ lastThrown.code = "invalid-argument"
    /\ iresult.code = "NO_RECIPE_FOUND"
    /\ iresult.allowManualEdit
    /\ retries = <<1>> /\ delays = <<1000>>
    /\ attempt = 2

\* C23: when importFromUrl has returned, the progress notifications start
\* with VALIDATING, hold FETCHING once per attempt entered, hold PARSING
\* before COMPLETE, and end with the one terminal notification: COMPLETE
\* exactly when the call returns success, ERROR exactly when it returns a
\* failure, the invalid-URL failure included.
C23_ProgressSequence ==
    ipc = "returned" =>
        LET n == Len(progress)
            At(x) == {i \in 1..n : progress[i] = x}
        IN  /\ n >= 2
            /\ progress[1] = "validating"
            /\ Cardinality(At("fetching")) = Len(retries) + (IF attempt >= 1 /\ attempt <= maxRetries THEN 1 ELSE 0)
            /\ At("complete") \cup At("error") = {n}
            /\ progress[n] = "complete" <=> iresult.success
            /\ progress[n] = "error" <=> ~iresult.success
            /\ iresult.success => \E i \in At("parsing") : i < n

\* C24: importFromUrl never returns the MAX_RETRIES_EXCEEDED result of the
\* statement after the loop, whatever maxRetries is: a call that has
\* returned past the validation returned from inside the loop, with
\* success or with the classified error of its last attempt.
C24_FallThroughUnreachable ==
    (ipc = "returned" /\ validateUrl(iurl)) =>
        /\ iresult.code # "MAX_RETRIES_EXCEEDED"
        /\ attempt >= 1 /\ attempt <= maxRetries
        /\ iresult.success \/ iresult = parseError(lastThrown)

\* C25: without a signed-in user importFromUrl makes one attempt, calls
\* onRetry never, waits for no delay, and returns the error UNAUTHENTICATED
\* with canRetry = false.
C25_UnauthenticatedNotRetried ==
    (ipc = "returned" /\ ~currentUser /\ validateUrl(iurl) /\ maxRetries >= 1) =>
        /\ iresult.code = "UNAUTHENTICATED"
        /\ ~iresult.canRetry
        /\ attempt = 1
        /\ retries = <<>>
        /\ delays = <<>>

\* C26: with maxRetries >= 1 importFromUrl makes at most maxRetries
\* attempts; it goes on to a further attempt only after a retryable
\* failure and with nothing returned; onRetry has been called once per
\* attempt left behind, with 1, 2, ... in order, and not after the last
\* attempt; the i-th wait is min(1000 * 2^(i-1), 5000) ms, so the waits
\* never decrease and never exceed 5000 ms.
C26_BoundedRetries ==
    (maxRetries >= 1 /\ validateUrl(iurl) /\ ipc # "called") =>
        /\ attempt >= 1 /\ attempt <= maxRetries
        /\ fetchAttempts <= attempt
        /\ Len(retries) = (IF ipc = "delaying" THEN attempt ELSE attempt - 1)
        /\ \A i \in 1..Len(retries) : retries[i] = i
        /\ Len(delays) = Len(retries)
        /\ \A i \in 1..Len(delays) :
              /\ delays[i] = (IF 1000 * (2 ^ (i - 1)) < 5000 THEN 1000 * (2 ^ (i - 1)) ELSE 5000)
              /\ delays[i] <= 5000
              /\ i > 1 => delays[i - 1] <= delays[i]
        /\ (ipc # "returned" /\ Len(retries) >= 1) =>
              /\ parseError(lastThrown).canRetry
              /\ iresult = NoResult
        /\ ipc = "returned" =>
              /\ iresult.success \/ iresult = parseError(lastThrown)
              /\ (~iresult.success /\ iresult.canRetry) => attempt = maxRetries

\* Four attempts failed in a retryable way and the waits reached the
\* ceiling: 1000, 2000, 4000, 5000 ms; the fifth attempt succeeded
C26_Witness ==
    /\ ipc = "returned"
    /\ iresult.success
    /\ attempt = 5
    /\ retries = <<1, 2, 3, 4>>
    /\ delays = <<1000, 2000, 4000, 5000>>

C27_Rank(st) == CASE st = "validating" -> 1 [] st = "fetching" -> 2 [] OTHER -> 3
C27_Terminal(st) == st \in {"complete", "error"}

C28_CompleteJobClean ==
    /\ [](\A i \in 1..Len(activeImports) :
             activeImports[i].status = "complete" =>
                 /\ activeImports[i].result
                 /\ activeImports[i].error = "")
    /\ [][(imports' = imports /\ jobIdCounter' = jobIdCounter) =>
             activeImports' = SelectSeq(activeImports,
                                 LAMBDA job : ~C27_Terminal(job.status))]_vars

\* C29: whenever no convertAndSaveRecipe or reconvertRecipe call is under
\* way, every (originalRecipeId, kidId) pair has at most one active
\* document in kidRecipes.
C29_OneActivePerPair ==
    (\A p \in DOMAIN ops : ops[p].pc \in {"idle", "done"}) =>
        \A pair \in Pairs : Cardinality(ActiveDocs(pair)) <= 1

\* C30: every report made is still in pendingReports unless a send of it
\* succeeded, and no report's send has succeeded more than once.
C30_DeliveredOnce ==
    \A r \in 1..reported :
        /\ delivered[r] = 0 =>
              \E i \in 1..Len(arrays[pendingReports]) : arrays[pendingReports][i] = r
        /\ delivered[r] <= 1
====
